---- MODULE Spec2Model ----
(***************************************************************************)
(* Adaptive reframing engine of backend/reels_processor.py                 *)
(* (class ReelsProcessor): face-timeline segmentation, segment refinement, *)
(* the dual-face guard, and the render orchestration of convert_to_reels.  *)
(*                                                                         *)
(* Time.  The code keeps times as float seconds, timestamp = frame / fps.  *)
(* The model keeps a time t as the integer t * fps (a frame number), so    *)
(* that "duration >= 1.0" reads "end_time - start_time >= fps".  Float     *)
(* rounding of frame / fps is not modelled.                                *)
(***************************************************************************)
EXTENDS Integers, Sequences, FiniteSets, TLC

VARIABLES
    video,            \* the source file: what cv2 / the detector return for it
    USE_SMOOTH_INTERPOLATION,   \* module tunable, reels_processor.py:29
    ENABLE_ZERO_FACE_PANNING,   \* module tunable, reels_processor.py:38
    pc,               \* position of the request inside convert_to_reels
    path,             \* the conversion method convert_to_reels routed to
    req,              \* the arguments of the running convert_to_reels call
    segments,         \* result of detect_face_segments (last call)
    merged_segments,  \* the refined plan of _convert_to_reels_dynamic
    seg_i,            \* loop index of the per-segment loop
    segment_files,    \* processed sub-clips collected for the concat list
    crop,             \* crop parameters / render mode chosen for the next transcode
    log,              \* transcode-engine invocations made so far, in order
    temp_dirs,        \* temp directories of this request that exist on disk
    temp_made,        \* number of temp directories the request has created
    result,           \* what convert_to_reels returned ("none" while running)
    remerged,         \* _merge_segments applied to merged_segments once more
    model_file,       \* the cached detection-model file: exists, who is writing it
    outputs,          \* output files: path -> the requests writing it, and whether
                      \* a write replaced another request's file
    workers           \* concurrent requests: each one's position and local state

vars == <<video, USE_SMOOTH_INTERPOLATION, ENABLE_ZERO_FACE_PANNING, pc, path, req,
          segments, merged_segments, seg_i, segment_files, crop, log,
          temp_dirs, temp_made, result, remerged, model_file, outputs, workers>>

\* what lives outside one request: the model cache, the output files and
\* the other requests
shared == <<model_file, outputs, workers>>

-----------------------------------------------------------------------------
(* Bounds of the model and program constants *)

MaxSamples == 3
Fps == 8
Width == 640
Height == 360

FACE_CHECK_INTERVAL_FRAMES == 4
SAMPLE_FRAMES == 10
MIN_CONFIDENCE_PCT == 60

-----------------------------------------------------------------------------
(* Small helpers *)

Min(a, b) == IF a < b THEN a ELSE b
Max(a, b) == IF a > b THEN a ELSE b

RECURSIVE Flatten(_)
\* [x for inner in s for x in inner]
Flatten(s) == IF s = <<>> THEN <<>> ELSE Head(s) \o Flatten(Tail(s))

-----------------------------------------------------------------------------
(* Raw detections.  A box is what the detector returns for one face:       *)
(* origin, size and confidence (in percent).                               *)

BoxL == [x |-> 100, y |-> 80,  w |-> 100, h |-> 110, conf |-> 90]
BoxR == [x |-> 420, y |-> 90,  w |-> 80, h |-> 90, conf |-> 85]
BoxS == [x |-> 300, y |-> 200, w |-> 30, h |-> 32, conf |-> 70]
BoxJ == [x |-> 250, y |-> 150, w |-> 60, h |-> 60, conf |-> 40]
\* a face whose centre is the centre column of the frame
BoxC == [x |-> Width \div 2 - 50, y |-> 80, w |-> 100, h |-> 110, conf |-> 90]

\* What the detector may return for one sampled frame.
FrameOptions ==
    { <<>>, <<BoxJ, BoxL>>, <<BoxL, BoxR>>, <<BoxL, BoxS>>, <<BoxL, BoxR, BoxS>>,
      <<BoxC>> }

\* A source file.  frames[k] is what the detector returns for frames
\* 4(k-1) .. 4k-1; frames at or beyond 4 * Len(frames) cannot be decoded
\* (cap.read() returns ret = False).
VideosOfLen(n) ==
    { [opened |-> TRUE, total_frames |-> t, frames |-> f] :
        f \in [1..n -> FrameOptions],
        t \in { Max(0, n * FACE_CHECK_INTERVAL_FRAMES - 1),
                (n + 1) * FACE_CHECK_INTERVAL_FRAMES } }

Videos ==
    { [opened |-> FALSE, total_frames |-> 0, frames |-> <<>>] } \cup
    UNION { VideosOfLen(n) : n \in 0..MaxSamples }

Readable(v, frame_idx) ==
    frame_idx < Len(v.frames) * FACE_CHECK_INTERVAL_FRAMES

Detections(v, frame_idx) == v.frames[(frame_idx \div FACE_CHECK_INTERVAL_FRAMES) + 1]

-----------------------------------------------------------------------------
(* Face Observation Filter (the same in all three detection loops) *)

MinFaceSize(height) == (height * 8) \div 100
EdgeMargin(width) == (width * 5) \div 100

Accepted(b, width, height) ==
    /\ ~(b.w < MinFaceSize(height) \/ b.h < MinFaceSize(height))
    /\ LET face_center_x == b.x + b.w \div 2
       IN ~(face_center_x < EdgeMargin(width) \/ face_center_x > width - EdgeMargin(width))
    /\ ~(b.conf < MIN_CONFIDENCE_PCT)
    /\ b.h > 0
    /\ ~(10 * b.w < 6 * b.h \/ 10 * b.w > 14 * b.h)

Face(b) ==
    [topLeft |-> [x |-> b.x, y |-> b.y],
     rightBottom |-> [x |-> b.x + b.w, y |-> b.y + b.h],
     width |-> b.w, height |-> b.h]

RECURSIVE FilterFaces(_, _, _)
FilterFaces(dets, width, height) ==
    IF dets = <<>> THEN <<>>
    ELSE (IF Accepted(Head(dets), width, height) THEN <<Face(Head(dets))>> ELSE <<>>)
         \o FilterFaces(Tail(dets), width, height)

\* size_ratio = min(w1, w2) / max(w1, w2) >= 0.5
SizeRatioOk(frame) ==
    2 * Min(frame[1].width, frame[2].width) >= Max(frame[1].width, frame[2].width)

-----------------------------------------------------------------------------
(* Face Timeline Segmenter: detect_face_segments *)

\* the frame's count without the size-ratio check
FaceCountWithoutRatioCheck(face_positions) == Len(face_positions)

\* face_count of one sampled frame: the number of accepted boxes, taken as 1
\* when exactly two boxes survive and their widths differ by more than 2x.
FaceCountOf(face_positions) ==
    IF Len(face_positions) = 2 /\ ~SizeRatioOk(face_positions)
    THEN 1
    ELSE Len(face_positions)

\* a segment closed at the last sample that observed it
CloseSegmentAtLastSample(cur, end_time) ==
    [face_count |-> cur.face_count, start_time |-> cur.start_time,
     end_time |-> Max(cur.start_time, end_time - FACE_CHECK_INTERVAL_FRAMES),
     faces |-> cur.faces]

\* A segment being closed at time end_time.
CloseSegment(cur, end_time) ==
    [face_count |-> cur.face_count, start_time |-> cur.start_time,
     end_time |-> end_time, faces |-> cur.faces]

\* The while loop of detect_face_segments from frame_idx on; current is <<>>
\* for None and <<segment>> otherwise.
RECURSIVE SegmentLoop(_, _, _, _, _, _)
SegmentLoop(v, width, height, frame_idx, segs, current) ==
    IF frame_idx >= v.total_frames \/ ~Readable(v, frame_idx)
    THEN \* close last segment
         IF current # <<>>
         THEN Append(segs, CloseSegment(current[1], v.total_frames))
         ELSE segs
    ELSE LET face_positions == FilterFaces(Detections(v, frame_idx), width, height)
             face_count == FaceCountOf(face_positions)
         IN IF current = <<>> \/ current[1].face_count # face_count
            THEN SegmentLoop(v, width, height, frame_idx + FACE_CHECK_INTERVAL_FRAMES,
                     IF current # <<>>
                     THEN Append(segs, CloseSegment(current[1], frame_idx))
                     ELSE segs,
                     << [face_count |-> face_count, start_time |-> frame_idx,
                         faces |-> IF face_positions # <<>>
                                   THEN <<face_positions>> ELSE <<>>] >>)
            ELSE SegmentLoop(v, width, height, frame_idx + FACE_CHECK_INTERVAL_FRAMES,
                     segs,
                     IF face_positions # <<>>
                     THEN << [current[1] EXCEPT !.faces = Append(@, face_positions)] >>
                     ELSE current)

\* detect_face_segments(video_path, FACE_CHECK_INTERVAL_FRAMES) for a source
\* that opens (the caller handles the raise for one that does not).
DetectFaceSegments(v) == SegmentLoop(v, Width, Height, 0, <<>>, <<>>)

-----------------------------------------------------------------------------
(* Segment Refiner: _merge_segments and _split_long_single_face_segments.  *)
(* ups is the number of time units per second (Fps for frame times).       *)

\* folding that adds the observations but leaves the end time alone
ExtendFacesOnly(prev, seg) == [prev EXCEPT !.faces = @ \o seg.faces]

\* filtered[-1]['end_time'] = seg['end_time'];
\* filtered[-1]['faces'].extend(seg['faces'])
ExtendPrevious(prev, seg) ==
    [prev EXCEPT !.end_time = seg.end_time, !.faces = @ \o seg.faces]

\* First pass: fold every segment shorter than 1.0 s into its predecessor;
\* the last segment, and a short first one, are kept.
RECURSIVE FilterShort(_, _, _, _)
FilterShort(segs, i, filtered, ups) ==
    IF i > Len(segs) THEN filtered
    ELSE LET seg == segs[i]
             duration == seg.end_time - seg.start_time
         IN IF duration >= ups \/ i = Len(segs)
            THEN FilterShort(segs, i + 1, Append(filtered, seg), ups)
            ELSE IF filtered # <<>>
                 THEN FilterShort(segs, i + 1,
                        [filtered EXCEPT ![Len(filtered)] = ExtendPrevious(@, seg)],
                        ups)
                 ELSE FilterShort(segs, i + 1, Append(filtered, seg), ups)

\* Second pass: merge consecutive segments with the same face count.
RECURSIVE MergeEqual(_, _, _, _)
MergeEqual(filtered, i, merged, current) ==
    IF i > Len(filtered) THEN Append(merged, current)
    ELSE LET seg == filtered[i]
         IN IF seg.face_count = current.face_count
            THEN MergeEqual(filtered, i + 1, merged,
                    [current EXCEPT !.end_time = seg.end_time,
                                    !.faces = @ \o seg.faces])
            ELSE MergeEqual(filtered, i + 1, Append(merged, current), seg)

\* the two passes in the other order
MergeThenFilter(segs, ups) ==
    IF segs = <<>> THEN <<>>
    ELSE FilterShort(MergeEqual(segs, 2, <<>>, segs[1]), 1, <<>>, ups)

MergeSegmentsIn(segs, ups) ==
    IF segs = <<>> THEN <<>>
    ELSE LET filtered == FilterShort(segs, 1, <<>>, ups)
         IN MergeEqual(filtered, 2, <<>>, filtered[1])

\* the refiner with a minimum segment duration of half a second
MergeSegmentsHalfSecond(segs) == MergeSegmentsIn(segs, Fps \div 2)

\* _merge_segments on frame times
MergeSegments(segs) == MergeSegmentsIn(segs, Fps)

\* The chunks of one long single-face segment.  chunk_duration =
\* duration / num_chunks; the model's integer times hold it exactly when
\* num_chunks divides i * duration.
SplitChunks(seg, num_chunks) ==
    LET duration == seg.end_time - seg.start_time
        total_face_frames == Len(seg.faces)
        faces_per_chunk == Max(1, total_face_frames \div num_chunks)
    IN [k \in 1..num_chunks |->
          LET i == k - 1
              face_start_idx == i * faces_per_chunk
              face_end_idx == IF i < num_chunks - 1
                              THEN (i + 1) * faces_per_chunk
                              ELSE total_face_frames
          IN [start_time |-> seg.start_time + (i * duration) \div num_chunks,
              end_time |-> IF i < num_chunks - 1
                           THEN seg.start_time + ((i + 1) * duration) \div num_chunks
                           ELSE seg.end_time,
              face_count |-> seg.face_count,
              faces |-> SubSeq(seg.faces, Min(face_start_idx, total_face_frames) + 1,
                               Min(face_end_idx, total_face_frames))]]

\* the number of chunks as the rounded-up quotient
NumChunksCeil(duration, max_duration, ups) ==
    (duration + max_duration * ups - 1) \div (max_duration * ups)

\* num_chunks = int(duration / max_duration) + 1
NumChunks(duration, max_duration, ups) == duration \div (max_duration * ups) + 1

RECURSIVE SplitLongIn(_, _, _)
SplitLongIn(segs, max_duration, ups) ==
    IF segs = <<>> THEN <<>>
    ELSE LET seg == Head(segs)
             duration == seg.end_time - seg.start_time
         IN (IF seg.face_count = 1 /\ duration > max_duration * ups /\ Len(seg.faces) > 0
             THEN SplitChunks(seg, NumChunks(duration, max_duration, ups))
             ELSE <<seg>>)
            \o SplitLongIn(Tail(segs), max_duration, ups)

\* _split_long_single_face_segments(merged_segments, max_duration=2.0)
SplitLongSingleFaceSegments(segs) == SplitLongIn(segs, 2, Fps)

-----------------------------------------------------------------------------
(* Crop Geometry Engine *)

\* int(a / b) for b > 0: Python's int() truncates toward zero
Trunc(a, b) == IF a >= 0 THEN a \div b ELSE -((-a) \div b)

Clamp(x, hi) == Max(0, Min(x, hi))

\* crop_width = int(crop_height * 9 / 16)
CropWidth(height) == (height * 9) \div 16

\* _get_default_crop_position(width, height, position)
GetDefaultCropPosition(width, height, position) ==
    LET crop_height == height
        crop_width == CropWidth(crop_height)
        crop_x == CASE position = "left" -> width \div 4 - crop_width \div 2
                    [] position = "right" -> (width * 3) \div 4 - crop_width \div 2
                    [] OTHER -> (width - crop_width) \div 2
    IN [x |-> Clamp(crop_x, width - crop_width), y |-> 0,
        width |-> crop_width, height |-> crop_height,
        face_detected |-> FALSE, position |-> position, mode |-> "single"]

RECURSIVE DualFaceFrames(_)
\* [frame for frame in face_positions if len(frame) == 2]
DualFaceFrames(face_positions) ==
    IF face_positions = <<>> THEN <<>>
    ELSE (IF Len(Head(face_positions)) = 2 THEN <<Head(face_positions)>> ELSE <<>>)
         \o DualFaceFrames(Tail(face_positions))

RECURSIVE ValidDualFaceFrames(_)
\* the dual-face frames whose two widths are within 50% of each other
ValidDualFaceFrames(dual_face_frames) ==
    IF dual_face_frames = <<>> THEN <<>>
    ELSE (IF SizeRatioOk(Head(dual_face_frames)) THEN <<Head(dual_face_frames)>> ELSE <<>>)
         \o ValidDualFaceFrames(Tail(dual_face_frames))

\* the guard with a threshold of 0.25
TooFewValidQuarter(n_valid, n_dual) == 4 * n_valid < n_dual

\* len(valid_dual_face_frames) < len(dual_face_frames) * 0.5
TooFewValid(n_valid, n_dual) == 2 * n_valid < n_dual

RECURSIVE SumOf(_, _, _)
\* sum(f[a][b] for f in faces); b = "" reads f[a]
SumOf(faces, a, b) ==
    IF faces = <<>> THEN 0
    ELSE (IF b = "" THEN Head(faces)[a] ELSE Head(faces)[a][b]) + SumOf(Tail(faces), a, b)

\* calculate_face_crop(faces): averaged corners plus padding.  center_x is
\* kept as the fraction center_num / center_den.
CalculateFaceCrop(faces) ==
    LET n == Len(faces)
        tl_x == SumOf(faces, "topLeft", "x")
        tl_y == SumOf(faces, "topLeft", "y")
        rb_x == SumOf(faces, "rightBottom", "x")
        rb_y == SumOf(faces, "rightBottom", "y")
        w == SumOf(faces, "width", "")
        h == SumOf(faces, "height", "")
        box_lt_x == Trunc(tl_x - w, n)
        box_lt_y == Trunc(2 * tl_y - h, 2 * n)
        box_rb_x == Trunc(rb_x + w, n)
        box_rb_y == Trunc(4 * rb_y + 3 * h, 4 * n)
    IN [box_lt_x |-> box_lt_x, box_lt_y |-> box_lt_y,
        box_width |-> box_rb_x - box_lt_x, box_height |-> box_rb_y - box_lt_y,
        center_num |-> tl_x + rb_x, center_den |-> 2 * n]

\* sorted(frame, key=lambda f: f['topLeft']['x'])[k] (the sort is stable)
SortedFace(frame, k) ==
    IF frame[2].topLeft.x < frame[1].topLeft.x
    THEN frame[3 - k]
    ELSE frame[k]

\* "Adjust if height exceeds width"
AspectAdjust(w, h) == IF h > w THEN [w |-> Trunc(h * 9, 8), h |-> h] ELSE [w |-> w, h |-> h]

\* the width cut to the source without recomputing the height
FitWidthKeepHeight(c, width) ==
    IF c.w > width THEN [w |-> width, h |-> c.h] ELSE c

\* "Ensure crop doesn't exceed video dimensions": width, then height
FitWidth(c, width) ==
    IF c.w > width THEN [w |-> width, h |-> Trunc(width * 8, 9)] ELSE c

\* no check of the height against the source
NoFitHeight(c, height) == c

FitHeight(c, height) ==
    IF c.h > height THEN [w |-> Trunc(height * 9, 8), h |-> height] ELSE c

\* final_crop_width / final_crop_height: the average box width conformed to 9:8
FinalCropSize(avg_box_width, width, height) ==
    FitHeight(FitWidth(AspectAdjust(avg_box_width, Trunc(avg_box_width * 8, 9)), width),
              height)

\* one of the two crop windows: centred on the face, top anchored, clamped
DualBox(f, size, width, height) ==
    [x |-> Clamp(Trunc(f.center_num - f.center_den * (size.w \div 2), f.center_den),
                 width - size.w),
     y |-> Clamp(f.box_lt_y, height - size.h),
     width |-> size.w, height |-> size.h]

\* the dict returned in dual mode; scale_factor = 1080 / final_crop_width
\* raises for a zero width, and the ratio printed before the return
\* (final_crop_width / final_crop_height) raises for a zero height
DualResult(left, right, size, width, height) ==
    IF size.w = 0 \/ size.h = 0
    THEN [mode |-> "ZeroDivisionError"]
    ELSE [mode |-> "dual", face_detected |-> TRUE,
          left_face |-> DualBox(left, size, width, height),
          right_face |-> DualBox(right, size, width, height),
          scale_width |-> 1080, scale_height |-> (1080 * 8) \div 9,
          output_width |-> 1080, output_height |-> ((1080 * 8) \div 9) * 2]

\* the geometry of _process_dual_face_crop from the valid dual-face frames
DualGeometry(valid, width, height) ==
    LET left == CalculateFaceCrop([k \in 1..Len(valid) |-> SortedFace(valid[k], 1)])
        right == CalculateFaceCrop([k \in 1..Len(valid) |-> SortedFace(valid[k], 2)])
    IN DualResult(left, right,
                  FinalCropSize((left.box_width + right.box_width) \div 2, width, height),
                  width, height)

\* the guard of _process_dual_face_crop: dual geometry only when there are
\* dual-face frames and at least half of them have similar sizes
DualGuard(n_valid, n_dual) == n_dual > 0 /\ ~TooFewValid(n_valid, n_dual)

\* _process_dual_face_crop(face_positions, width, height)
ProcessDualFaceCrop(face_positions, width, height) ==
    IF DualGuard(Len(ValidDualFaceFrames(DualFaceFrames(face_positions))),
                 Len(DualFaceFrames(face_positions)))
    THEN DualGeometry(ValidDualFaceFrames(DualFaceFrames(face_positions)), width, height)
    ELSE GetDefaultCropPosition(width, height, "left")

-----------------------------------------------------------------------------
(* detect_speaker_position: static mode, SAMPLE_FRAMES evenly spread frames *)

\* The accepted faces of sampled frame i (0-based); <<>> when cap.read() fails
\* (the loop then continues with the next index).
SampledFaces(v, i, width, height) ==
    LET frame_idx == (v.total_frames * i) \div SAMPLE_FRAMES
    IN IF Readable(v, frame_idx)
       THEN FilterFaces(Detections(v, frame_idx), width, height)
       ELSE <<>>

\* two-face frames counted only when the widths are within 10%
CountsAsTwoFacesStrict(frame_faces) ==
    /\ Len(frame_faces) = 2
    /\ 10 * Min(frame_faces[1].width, frame_faces[2].width)
         >= 9 * Max(frame_faces[1].width, frame_faces[2].width)

\* A sampled frame counts for dual mode: exactly two accepted faces of
\* similar size.
CountsAsTwoFaces(frame_faces) == Len(frame_faces) = 2 /\ SizeRatioOk(frame_faces)

RECURSIVE SpeakerFacePositions(_, _, _, _)
\* face_positions after the sampling loop, from sample i on
SpeakerFacePositions(v, i, width, height) ==
    IF i >= SAMPLE_FRAMES THEN <<>>
    ELSE LET frame_faces == SampledFaces(v, i, width, height)
         IN (IF frame_faces # <<>> THEN <<frame_faces>> ELSE <<>>)
            \o SpeakerFacePositions(v, i + 1, width, height)

FramesWithTwoFaces(v, width, height) ==
    Cardinality({ i \in 0..(SAMPLE_FRAMES - 1) :
                    CountsAsTwoFaces(SampledFaces(v, i, width, height)) })

RECURSIVE SortedInsert(_, _)
SortedInsert(s, x) ==
    IF s = <<>> THEN <<x>>
    ELSE IF x < Head(s) THEN <<x>> \o s
    ELSE <<Head(s)>> \o SortedInsert(Tail(s), x)

RECURSIVE SortedCentres(_)
SortedCentres(s) == IF s = <<>> THEN <<>> ELSE SortedInsert(SortedCentres(Tail(s)), Head(s))

\* detect_speaker_position(video_path) for a source that opens
DetectSpeakerPosition(v, width, height) ==
    LET face_positions == SpeakerFacePositions(v, 0, width, height)
        frames_with_two_faces == FramesWithTwoFaces(v, width, height)
        all_faces == Flatten(face_positions)
    IN IF 10 * frames_with_two_faces >= 9 * SAMPLE_FRAMES
       THEN ProcessDualFaceCrop(face_positions, width, height)
       ELSE IF all_faces # <<>>
       THEN LET \* twice the face centres, sorted
                c2 == SortedCentres([k \in 1..Len(all_faces) |->
                          all_faces[k].topLeft.x + all_faces[k].rightBottom.x])
                n == Len(c2)
                \* four times the median centre
                median4 == IF n % 2 = 0
                           THEN c2[n \div 2] + c2[n \div 2 + 1]
                           ELSE 2 * c2[n \div 2 + 1]
                crop_height == height
                crop_width == CropWidth(crop_height)
                crop_x == Trunc(median4 - 4 * (crop_width \div 2), 4)
            IN [x |-> Clamp(crop_x, width - crop_width), y |-> 0,
                width |-> crop_width, height |-> crop_height,
                face_detected |-> TRUE, mode |-> "single"]
       ELSE GetDefaultCropPosition(width, height, "left")

-----------------------------------------------------------------------------
(* _get_face_positions_timeline: the first accepted face of every sampled   *)
(* frame, as (time, x_center)                                              *)

RECURSIVE TimelineLoop(_, _, _, _)
TimelineLoop(v, width, height, frame_idx) ==
    IF frame_idx >= v.total_frames \/ ~Readable(v, frame_idx) THEN <<>>
    ELSE LET faces == FilterFaces(Detections(v, frame_idx), width, height)
         IN (IF faces # <<>>
             THEN << <<frame_idx, faces[1].topLeft.x + faces[1].width \div 2>> >>
             ELSE <<>>)
            \o TimelineLoop(v, width, height, frame_idx + FACE_CHECK_INTERVAL_FRAMES)

GetFacePositionsTimeline(v, width, height) ==
    LET positions == TimelineLoop(v, width, height, 0)
    IN IF positions = <<>>
       THEN << <<0, width \div 2>>, <<v.total_frames, width \div 2>> >>
       ELSE positions

\* is_zero_face of _convert_to_reels_smooth / _convert_to_stacked_format
IsZeroFace(positions, width) ==
    /\ Len(positions) = 2
    /\ positions[1][2] = width \div 2
    /\ positions[2][2] = width \div 2

\* _bezier_interpolate raises (scipy CubicSpline: x must be strictly
\* increasing) when two or more keyframes do not have increasing times.
BezierRaises(positions) ==
    /\ Len(positions) >= 2
    /\ \E k \in 1..(Len(positions) - 1) : positions[k][1] >= positions[k + 1][1]

-----------------------------------------------------------------------------
(* The request: convert_to_reels and the paths it routes to *)

FORMAT_VERTICAL_9_16 == "vertical_9x16"
FORMAT_STACKED_PHOTO == "stacked_photo"
FORMAT_STACKED_VIDEO == "stacked_video"

\* The calls made by the calling application.  ai_content says that
\* ai_content_path names an existing file, caption that caption_text is given;
\* the vertical format reads neither.
Requests ==
    { [auto_detect |-> a, dynamic_mode |-> d, output_format |-> FORMAT_VERTICAL_9_16,
       ai_content |-> FALSE, caption |-> FALSE] : a \in BOOLEAN, d \in BOOLEAN }
    \cup
    { [auto_detect |-> TRUE, dynamic_mode |-> TRUE, output_format |-> f,
       ai_content |-> c, caption |-> t] :
         f \in {FORMAT_STACKED_PHOTO, FORMAT_STACKED_VIDEO}, c \in BOOLEAN, t \in BOOLEAN }

NoRequest == [auto_detect |-> FALSE, dynamic_mode |-> FALSE, output_format |-> "none",
              ai_content |-> FALSE, caption |-> FALSE]
NoCrop == [mode |-> "none"]

\* cap.get(CAP_PROP_FRAME_WIDTH / HEIGHT): 0 for a capture that did not open
VideoWidth(v) == IF v.opened THEN Width ELSE 0
VideoHeight(v) == IF v.opened THEN Height ELSE 0

\* One subprocess.run(cmd, check=True) of the transcode engine.  target is
\* "output" when the command writes output_path, "temp" otherwise; streams
\* says what the written file carries.
Invocation(op, seg, ok, target, streams, mode, inputs) ==
    [op |-> op, seg |-> seg, ok |-> ok, target |-> target, streams |-> streams,
     mode |-> mode, inputs |-> inputs]

\* the request has not started: everything it writes is still empty
RequestIdle ==
    /\ path = "none"
    /\ req = NoRequest
    /\ merged_segments = <<>>
    /\ seg_i = 0
    /\ segment_files = <<>>
    /\ crop = NoCrop
    /\ log = <<>>
    /\ temp_dirs = {}
    /\ temp_made = 0
    /\ result = "none"
    /\ remerged = <<>>

\* the detection model is cached and no other request is running
NothingShared ==
    /\ model_file = [exists |-> TRUE, writers |-> {}]
    /\ outputs = <<>>
    /\ workers = <<>>

NothingDone == RequestIdle /\ NothingShared

Init ==
    /\ video \in Videos
    /\ USE_SMOOTH_INTERPOLATION \in BOOLEAN
    /\ ENABLE_ZERO_FACE_PANNING \in BOOLEAN
    /\ pc = "start"
    /\ segments = <<>>
    /\ NothingDone

config == <<video, USE_SMOOTH_INTERPOLATION, ENABLE_ZERO_FACE_PANNING, remerged, shared>>

\* subprocess.run without check=True: the exit status is ignored
Unchecked(ok) == TRUE

\* subprocess.run(cmd, check=True) returns normally only for exit status 0;
\* ok is the engine's exit status being 0.
Succeeded(ok) == ok

\* the smoothing flag tested before the dual-face segments
RouteSmoothFirst(has_dual_face_segments, smooth) ==
    IF smooth THEN "smooth" ELSE "dynamic"

\* the branch of convert_to_reels taken under dynamic_mode and auto_detect
Route(has_dual_face_segments, smooth) ==
    IF has_dual_face_segments THEN "dynamic"
    ELSE IF smooth THEN "smooth"
    ELSE "dynamic"

\* segment_files.insert(0, processed_path)
PrependSegmentFile(files, i) == <<i>> \o files

\* the loop staying on the segment it just rendered
SameSegment(i) == i

\* for i, seg in enumerate(merged_segments): the segment after segment i
NextSegment(i) == i + 1

\* segment_files.append(processed_path)
CollectSegmentFile(files, i) == Append(files, i)

\* return {'success': ...} or an exception leaving convert_to_reels
Return(r) == /\ pc' = "done" /\ result' = r

\* tempfile.mkdtemp()
MkDTemp ==
    /\ temp_made' = temp_made + 1
    /\ temp_dirs' = temp_dirs \cup {temp_made + 1}

\* shutil.rmtree(temp_dir, ignore_errors=True) of the directory made last
RmTree == temp_dirs' = temp_dirs \ {temp_made}

\* convert_to_reels up to the call of the conversion method it routes to
ConvertToReels(r) ==
    /\ pc = "start"
    /\ req' = r
    /\ UNCHANGED <<config, merged_segments, seg_i, segment_files, log, temp_dirs, temp_made>>
    /\ IF r.output_format \in {FORMAT_STACKED_PHOTO, FORMAT_STACKED_VIDEO}
       THEN /\ pc' = "stacked" /\ path' = "stacked"
            /\ UNCHANGED <<segments, crop, result>>
       ELSE IF r.dynamic_mode /\ r.auto_detect
       THEN IF ~video.opened
            THEN \* detect_face_segments raises; nothing catches it here
                 /\ Return("raised") /\ UNCHANGED <<path, segments, crop>>
            ELSE /\ segments' = DetectFaceSegments(video)
                 /\ path' = Route(\E k \in 1..Len(segments') : segments'[k].face_count = 2,
                                  USE_SMOOTH_INTERPOLATION)
                 /\ pc' = path'
                 /\ UNCHANGED <<crop, result>>
       ELSE IF r.auto_detect
       THEN IF ~video.opened
            THEN \* detect_speaker_position raises
                 /\ Return("raised") /\ UNCHANGED <<path, segments, crop>>
            ELSE /\ crop' = DetectSpeakerPosition(video, VideoWidth(video), VideoHeight(video))
                 /\ pc' = IF crop'.mode = "dual" THEN "dual_face" ELSE "single_face"
                 /\ path' = "static"
                 /\ UNCHANGED <<segments, result>>
       ELSE /\ crop' = GetDefaultCropPosition(VideoWidth(video), VideoHeight(video), "center")
            /\ pc' = "single_face"
            /\ path' = "static"
            /\ UNCHANGED <<segments, result>>

\* _convert_single_face_reels: one transcode writing output_path
ConvertSingleFaceReels(ok) ==
    /\ pc = "single_face"
    /\ log' = Append(log, Invocation("single_face", 0, ok, "output", "av", crop.mode, <<>>))
    /\ Return(IF Succeeded(ok) THEN "success" ELSE "failure")
    /\ UNCHANGED <<config, path, req, segments, merged_segments, seg_i, segment_files, crop,
                   temp_dirs, temp_made>>

\* _convert_dual_face_reels: one transcode (split, two crops, vstack)
ConvertDualFaceReels(ok) ==
    /\ pc = "dual_face"
    /\ log' = Append(log, Invocation("dual_face", 0, ok, "output", "av", crop.mode, <<>>))
    /\ Return(IF Succeeded(ok) THEN "success" ELSE "failure")
    /\ UNCHANGED <<config, path, req, segments, merged_segments, seg_i, segment_files, crop,
                   temp_dirs, temp_made>>

-----------------------------------------------------------------------------
(* WHOLE_VIDEO_SINGLE_PASS: _convert_to_reels_smooth *)

\* The trajectory source of the single-pass and stacked paths: "pan" for the
\* panning positions, "track" for the interpolated face positions.
TrajectoryMode(positions, width) ==
    IF IsZeroFace(positions, width) /\ ENABLE_ZERO_FACE_PANNING THEN "pan" ELSE "track"

\* _convert_to_reels_smooth up to the transcode: timeline, trajectory,
\* mkdtemp, crop_commands.txt, crop expression
ConvertToReelsSmooth ==
    /\ pc = "smooth"
    /\ UNCHANGED <<config, path, req, segments, merged_segments, seg_i, segment_files, log>>
    /\ IF ~video.opened
       THEN \* _get_face_positions_timeline raises; except Exception
            /\ Return("failure") /\ UNCHANGED <<crop, temp_dirs, temp_made>>
       ELSE LET positions == GetFacePositionsTimeline(video, Width, Height)
                mode == TrajectoryMode(positions, Width)
            IN IF mode = "track" /\ BezierRaises(positions)
               THEN /\ Return("failure") /\ UNCHANGED <<crop, temp_dirs, temp_made>>
               ELSE /\ crop' = [mode |-> mode, keyframes |-> Len(positions)]
                    /\ MkDTemp
                    /\ pc' = "smooth_transcode"
                    /\ UNCHANGED result

\* the single ffmpeg pass of _convert_to_reels_smooth and what follows it
SmoothTranscode(ok) ==
    /\ pc = "smooth_transcode"
    /\ log' = Append(log, Invocation("smooth", 0, ok, "output", "av", crop.mode, <<>>))
    /\ IF Succeeded(ok)
       THEN /\ RmTree /\ Return("success")
       ELSE \* except CalledProcessError: returns without the cleanup
            /\ Return("failure") /\ UNCHANGED temp_dirs
    /\ UNCHANGED <<config, path, req, segments, merged_segments, seg_i, segment_files, crop,
                   temp_made>>

-----------------------------------------------------------------------------
(* PER_SEGMENT_PIPELINE: _convert_to_reels_dynamic *)

\* crop_params['left_face'] of what _process_dual_face_crop returned: a
\* single/default result has no such key.
DualOrKeyError(p) ==
    IF p.mode = "single" THEN [mode |-> "KeyError"] ELSE p

\* The static fallback crop of a single-face segment with fewer than two
\* positions: centred on the upper median of the face centres.
MedianCrop(seg, width, height) ==
    LET all_faces == Flatten(seg.faces)
        c2 == SortedCentres([k \in 1..Len(all_faces) |->
                  all_faces[k].topLeft.x + all_faces[k].rightBottom.x])
        crop_width == CropWidth(height)
        \* twice median_center_x
        median2 == IF c2 # <<>> THEN c2[Len(c2) \div 2 + 1] ELSE 2 * (width \div 2)
    IN [mode |-> "median", x |-> Clamp(Trunc(median2 - 2 * (crop_width \div 2), 2),
                                       width - crop_width),
        y |-> 0, width |-> crop_width, height |-> height]

\* "Determine crop parameters for this segment": what the segment is
\* rendered with, or the exception raised on the way.
SegmentCrop(seg, width, height) ==
    IF seg.face_count = 2 /\ Len(seg.faces) > 0
    THEN DualOrKeyError(ProcessDualFaceCrop(seg.faces, width, height))
    ELSE IF seg.face_count = 1 /\ Len(seg.faces) > 0 /\ USE_SMOOTH_INTERPOLATION
    THEN \* every entry of seg.faces is a non-empty frame: one position each
         IF Len(seg.faces) >= 2
         THEN [mode |-> "track", keyframes |-> Len(seg.faces)]
         ELSE MedianCrop(seg, width, height)
    ELSE IF seg.face_count = 0 /\ ENABLE_ZERO_FACE_PANNING /\ USE_SMOOTH_INTERPOLATION
    THEN [mode |-> "pan"]
    ELSE GetDefaultCropPosition(width, height, "center")

IsException(c) == c.mode \in {"KeyError", "ZeroDivisionError"}

\* _convert_to_reels_dynamic from the detected segments to its first
\* transcode: merge, optional split, the one-segment shortcut, mkdtemp
PlanSegments(segs) ==
    LET merged == MergeSegments(segs)
        plan == IF USE_SMOOTH_INTERPOLATION THEN merged
                ELSE SplitLongSingleFaceSegments(merged)
    IN /\ segments' = segs
       /\ IF segs = <<>>
          THEN /\ crop' = GetDefaultCropPosition(Width, Height, "center")
               /\ pc' = "single_face"
               /\ UNCHANGED <<merged_segments, temp_dirs, temp_made, result>>
          ELSE /\ merged_segments' = plan
               /\ IF Len(plan) = 1
                  THEN IF plan[1].face_count = 2
                       THEN LET p == DualOrKeyError(
                                   ProcessDualFaceCrop(plan[1].faces, Width, Height))
                            IN /\ crop' = p
                               /\ IF IsException(p)
                                  THEN Return("failure")
                                  ELSE pc' = "dual_face" /\ UNCHANGED result
                               /\ UNCHANGED <<temp_dirs, temp_made>>
                       ELSE /\ crop' = GetDefaultCropPosition(Width, Height, "center")
                            /\ pc' = "single_face"
                            /\ UNCHANGED <<temp_dirs, temp_made, result>>
                  ELSE /\ MkDTemp
                       /\ pc' = "audio"
                       /\ UNCHANGED <<crop, result>>

\* _convert_to_reels_dynamic up to its first transcode: detection, then the plan
ConvertToReelsDynamic ==
    /\ pc = "dynamic"
    /\ UNCHANGED <<config, path, req, seg_i, segment_files, log>>
    /\ IF ~video.opened
       THEN /\ Return("failure")
            /\ UNCHANGED <<segments, merged_segments, crop, temp_dirs, temp_made>>
       ELSE PlanSegments(DetectFaceSegments(video))

\* the finally clause and the except clauses of the multi-segment body
AbortPipeline == RmTree /\ Return("failure")

\* "Extract original audio ONCE"
ExtractAudio(ok) ==
    /\ pc = "audio"
    /\ log' = Append(log, Invocation("audio", 0, ok, "temp", "a", "none", <<>>))
    /\ IF Succeeded(ok)
       THEN /\ seg_i' = 1 /\ pc' = "extract" /\ UNCHANGED <<temp_dirs, result>>
       ELSE AbortPipeline /\ UNCHANGED seg_i
    /\ UNCHANGED <<config, path, req, segments, merged_segments, segment_files, crop, temp_made>>

\* extract the raw sub-range of segment seg_i, then determine its crop
ExtractSegment(ok) ==
    /\ pc = "extract"
    /\ log' = Append(log, Invocation("extract", seg_i, ok, "temp", "v", "none", <<>>))
    /\ IF Succeeded(ok)
       THEN LET c == SegmentCrop(merged_segments[seg_i], Width, Height)
            IN /\ crop' = c
               /\ IF IsException(c)
                  THEN AbortPipeline
                  ELSE pc' = "render" /\ UNCHANGED <<temp_dirs, result>>
       ELSE AbortPipeline /\ UNCHANGED crop
    /\ UNCHANGED <<config, path, req, segments, merged_segments, seg_i, segment_files, temp_made>>

\* render segment seg_i with its crop; collect the processed sub-clip
RenderSegment(ok) ==
    /\ pc = "render"
    /\ log' = Append(log, Invocation("render", seg_i, ok, "temp", "v", crop.mode, <<>>))
    /\ IF Succeeded(ok)
       THEN /\ segment_files' = CollectSegmentFile(segment_files, seg_i)
            /\ IF seg_i < Len(merged_segments)
               THEN seg_i' = NextSegment(seg_i) /\ pc' = "extract"
               ELSE pc' = "concat" /\ UNCHANGED seg_i
            /\ UNCHANGED <<temp_dirs, result>>
       ELSE AbortPipeline /\ UNCHANGED <<seg_i, segment_files>>
    /\ UNCHANGED <<config, path, req, segments, merged_segments, crop, temp_made>>

\* write concat_list.txt from segment_files and concatenate
ConcatSegments(ok) ==
    /\ pc = "concat"
    /\ log' = Append(log, Invocation("concat", 0, ok, "temp", "v", "none", segment_files))
    /\ IF Succeeded(ok)
       THEN pc' = "remux" /\ UNCHANGED <<temp_dirs, result>>
       ELSE AbortPipeline
    /\ UNCHANGED <<config, path, req, segments, merged_segments, seg_i, segment_files, crop,
                   temp_made>>

\* add the original audio back; writes output_path; finally: rmtree
RemuxAudio(ok) ==
    /\ pc = "remux"
    /\ log' = Append(log, Invocation("remux", 0, ok, "output", "av", "none", <<>>))
    /\ RmTree
    /\ Return(IF Succeeded(ok) THEN "success" ELSE "failure")
    /\ UNCHANGED <<config, path, req, segments, merged_segments, seg_i, segment_files, crop,
                   temp_made>>

-----------------------------------------------------------------------------
(* Stacked layouts: _convert_to_stacked_format *)

\* up to the bottom-box transcode: mkdtemp, open, timeline, trajectory
ConvertToStackedFormat ==
    /\ pc = "stacked"
    /\ MkDTemp
    /\ UNCHANGED <<config, path, req, segments, merged_segments, seg_i, segment_files, log>>
    /\ IF ~video.opened
       THEN \* return {'success': False, ...} with the directory left behind
            /\ Return("failure") /\ UNCHANGED crop
       ELSE LET positions == GetFacePositionsTimeline(video, Width, Height)
                mode == TrajectoryMode(positions, Width)
            IN IF mode = "track" /\ BezierRaises(positions)
               THEN /\ Return("failure") /\ UNCHANGED crop
               ELSE /\ crop' = [mode |-> mode, keyframes |-> Len(positions)]
                    /\ pc' = "bottom_box"
                    /\ UNCHANGED result

\* a failed step of the stacked path: the except clauses return at once
StackedStep(op, ok, target, streams, next) ==
    /\ log' = Append(log, Invocation(op, 0, ok, target, streams, crop.mode, <<>>))
    /\ IF Succeeded(ok)
       THEN IF next = "done"
            THEN RmTree /\ Return("success")
            ELSE pc' = next /\ UNCHANGED <<temp_dirs, result>>
       ELSE Return("failure") /\ UNCHANGED temp_dirs
    /\ UNCHANGED <<config, path, req, segments, merged_segments, seg_i, segment_files, crop,
                   temp_made>>

\* Step 1: bottom box with tracking
StackedBottomBox(ok) ==
    /\ pc = "bottom_box"
    /\ StackedStep("bottom_box", ok, "temp", "av", "top_box")

\* Step 2: top box from the AI content, or a generated placeholder
StackedTopBox(ok) ==
    /\ pc = "top_box"
    /\ StackedStep(IF req.ai_content THEN "top_box" ELSE "placeholder",
                   ok, "temp", "v", "stack")

\* Step 3: vstack; without a caption shutil.copy then writes output_path
StackedStack(ok) ==
    /\ pc = "stack"
    /\ StackedStep("stack", ok, "temp", "av", IF req.caption THEN "caption" ELSE "done")

\* Step 4: _add_captions_overlay writes output_path
StackedCaption(ok) ==
    /\ pc = "caption"
    /\ StackedStep("caption", ok, "output", "av", "done")

-----------------------------------------------------------------------------

Next ==
    \/ \E r \in Requests : ConvertToReels(r)
    \/ \E ok \in BOOLEAN : ConvertSingleFaceReels(ok)
    \/ \E ok \in BOOLEAN : ConvertDualFaceReels(ok)
    \/ ConvertToReelsSmooth
    \/ \E ok \in BOOLEAN : SmoothTranscode(ok)
    \/ ConvertToReelsDynamic
    \/ \E ok \in BOOLEAN : ExtractAudio(ok)
    \/ \E ok \in BOOLEAN : ExtractSegment(ok)
    \/ \E ok \in BOOLEAN : RenderSegment(ok)
    \/ \E ok \in BOOLEAN : ConcatSegments(ok)
    \/ \E ok \in BOOLEAN : RemuxAudio(ok)
    \/ ConvertToStackedFormat
    \/ \E ok \in BOOLEAN : StackedBottomBox(ok)
    \/ \E ok \in BOOLEAN : StackedTopBox(ok)
    \/ \E ok \in BOOLEAN : StackedStack(ok)
    \/ \E ok \in BOOLEAN : StackedCaption(ok)

Spec == Init /\ [][Next]_vars

-----------------------------------------------------------------------------
(* _merge_segments on its own: any ordered, gap-free segment list *)

MaxMergeSegs == 3

\* the observation recorded for the k-th input segment (distinct per segment)
Observation(k) ==
    Face([x |-> 100 + 10 * k, y |-> 80, w |-> 100, h |-> 110, conf |-> 90])

\* face count, duration (half a second or one second) and whether the
\* segment holds an observation
SegmentShapes ==
    [face_count : 0..2, duration : {Fps \div 2, Fps}, observed : BOOLEAN]

RECURSIVE DurationBefore(_, _)
DurationBefore(shapes, k) ==
    IF k <= 1 THEN 0 ELSE shapes[k - 1].duration + DurationBefore(shapes, k - 1)

SegmentList(shapes, start) ==
    [k \in 1..Len(shapes) |->
        [face_count |-> shapes[k].face_count,
         start_time |-> start + DurationBefore(shapes, k),
         end_time |-> start + DurationBefore(shapes, k + 1),
         faces |-> IF shapes[k].observed THEN << <<Observation(k)>> >> ELSE <<>>]]

NoVideo == [opened |-> FALSE, total_frames |-> 0, frames |-> <<>>]

InitMerge ==
    /\ \E n \in 0..MaxMergeSegs :
          \E shapes \in [1..n -> SegmentShapes], start \in {0, Fps \div 2} :
              segments = SegmentList(shapes, start)
    /\ pc = "merge_in"
    /\ video = NoVideo
    /\ USE_SMOOTH_INTERPOLATION = TRUE
    /\ ENABLE_ZERO_FACE_PANNING = TRUE
    /\ NothingDone

\* merged_segments = self._merge_segments(segments)
MergeOnce ==
    /\ pc = "merge_in"
    /\ merged_segments' = MergeSegments(segments)
    /\ pc' = "merged"
    /\ UNCHANGED <<shared, video, USE_SMOOTH_INTERPOLATION, ENABLE_ZERO_FACE_PANNING, path, req,
                   segments, seg_i, segment_files, crop, log, temp_dirs, temp_made,
                   result, remerged>>

\* self._merge_segments(merged_segments): the refiner run on its own output
MergeAgain ==
    /\ pc = "merged"
    /\ remerged' = MergeSegments(merged_segments)
    /\ pc' = "merged_again"
    /\ UNCHANGED <<shared, video, USE_SMOOTH_INTERPOLATION, ENABLE_ZERO_FACE_PANNING, path, req,
                   segments, merged_segments, seg_i, segment_files, crop, log, temp_dirs,
                   temp_made, result>>

NextMerge == MergeOnce \/ MergeAgain

SpecMerge == InitMerge /\ [][NextMerge]_vars

-----------------------------------------------------------------------------
(* _split_long_single_face_segments on its own.  Times are counted in       *)
(* units small enough for every chunk boundary to be a whole number.        *)

MaxSplitHalfSeconds == 12

\* units per second: a half second is a multiple of 2, 3, 4 and 5
SplitUnits == 2 * 60

SplitMaxDuration == 2

\* one segment of the given face count, length and number of sampled frames
SplitSegment(face_count, start, half_seconds, n_faces) ==
    [face_count |-> face_count,
     start_time |-> start,
     end_time |-> start + half_seconds * (SplitUnits \div 2),
     faces |-> IF face_count = 0 THEN <<>>
               ELSE [k \in 1..n_faces |->
                        IF face_count = 1 THEN <<Observation(k)>>
                        ELSE <<Face(BoxL), Face(BoxR)>>]]

InitSplit ==
    /\ \E face_count \in 0..2, start \in {0, SplitUnits \div 2},
          half_seconds \in 1..MaxSplitHalfSeconds, n_faces \in 1..3 :
            segments = <<SplitSegment(face_count, start, half_seconds, n_faces)>>
    /\ pc = "split_in"
    /\ video = NoVideo
    /\ USE_SMOOTH_INTERPOLATION = FALSE
    /\ ENABLE_ZERO_FACE_PANNING = TRUE
    /\ NothingDone

\* merged_segments = self._split_long_single_face_segments(merged_segments,
\*                                                         max_duration=2.0)
SplitLong ==
    /\ pc = "split_in"
    /\ merged_segments' = SplitLongIn(segments, SplitMaxDuration, SplitUnits)
    /\ pc' = "split_done"
    /\ UNCHANGED <<config, path, req, segments, seg_i, segment_files, crop, log,
                   temp_dirs, temp_made, result>>

NextSplit == SplitLong

SpecSplit == InitSplit /\ [][NextSplit]_vars

-----------------------------------------------------------------------------
(* The per-segment pipeline on its own: any list of detected segments.     *)
(* A source with a high frame rate has several samples in half a second.   *)

MaxPlanSegs == 3

\* what the sampled frames of one detected segment hold
PlanFaces(kind) ==
    CASE kind = "none" -> <<>>
      [] kind = "one" -> << <<Face(BoxL)>> >>
      [] kind = "moving" -> << <<Face(BoxL)>>, <<Face(BoxC)>> >>
      [] kind = "pair" -> << <<Face(BoxL), Face(BoxR)>> >>
      [] kind = "mismatched" -> << <<Face(BoxL), Face(BoxS)>>, <<Face(BoxL), Face(BoxS)>> >>

PlanKinds == {"none", "one", "moving", "pair", "mismatched"}

PlanShapes == [kind : PlanKinds, duration : {Fps \div 2, Fps}]

PlanList(shapes) ==
    [k \in 1..Len(shapes) |->
        [face_count |-> IF shapes[k].kind = "none" THEN 0
                        ELSE FaceCountOf(PlanFaces(shapes[k].kind)[1]),
         start_time |-> DurationBefore(shapes, k),
         end_time |-> DurationBefore(shapes, k + 1),
         faces |-> PlanFaces(shapes[k].kind)]]

InitPlan ==
    /\ \E n \in 0..MaxPlanSegs :
          \E shapes \in [1..n -> PlanShapes] :
              /\ \A k \in 1..(n - 1) :
                    PlanList(shapes)[k].face_count # PlanList(shapes)[k + 1].face_count
              /\ segments = PlanList(shapes)
    /\ USE_SMOOTH_INTERPOLATION \in BOOLEAN
    /\ ENABLE_ZERO_FACE_PANNING \in BOOLEAN
    \* convert_to_reels has routed the request here
    /\ Route(\E k \in DOMAIN segments : segments[k].face_count = 2,
             USE_SMOOTH_INTERPOLATION) = "dynamic"
    /\ pc = "detected"
    /\ path = "dynamic"
    /\ video = [opened |-> TRUE, total_frames |-> 0, frames |-> <<>>]
    /\ req = [auto_detect |-> TRUE, dynamic_mode |-> TRUE,
              output_format |-> FORMAT_VERTICAL_9_16, ai_content |-> FALSE,
              caption |-> FALSE]
    /\ merged_segments = <<>>
    /\ seg_i = 0
    /\ segment_files = <<>>
    /\ crop = NoCrop
    /\ log = <<>>
    /\ temp_dirs = {}
    /\ temp_made = 0
    /\ result = "none"
    /\ remerged = <<>>
    /\ NothingShared

\* _convert_to_reels_dynamic after detect_face_segments has returned
PlanDetected ==
    /\ pc = "detected"
    /\ PlanSegments(segments)
    /\ UNCHANGED <<config, path, req, seg_i, segment_files, log>>

NextPlan ==
    \/ PlanDetected
    \/ \E ok \in BOOLEAN : ConvertSingleFaceReels(ok)
    \/ \E ok \in BOOLEAN : ConvertDualFaceReels(ok)
    \/ \E ok \in BOOLEAN : ExtractAudio(ok)
    \/ \E ok \in BOOLEAN : ExtractSegment(ok)
    \/ \E ok \in BOOLEAN : RenderSegment(ok)
    \/ \E ok \in BOOLEAN : ConcatSegments(ok)
    \/ \E ok \in BOOLEAN : RemuxAudio(ok)

SpecPlan == InitPlan /\ [][NextPlan]_vars

-----------------------------------------------------------------------------
(* _process_dual_face_crop on its own: any list of frames of accepted faces *)

MaxDualFrames == 3

\* frames of accepted faces: one face, two similar faces (ratio 0.8), two
\* mismatched faces (ratio 0.3), three faces
FaceFrames ==
    { FilterFaces(d, Width, Height) :
        d \in { <<BoxL>>, <<BoxL, BoxR>>, <<BoxS, BoxL>>, <<BoxL, BoxR, BoxS>> } }

DualInputs == UNION { [1..n -> FaceFrames] : n \in 0..MaxDualFrames }

InitDual ==
    /\ \E fp \in DualInputs :
          segments = << [face_count |-> 2, start_time |-> 0, end_time |-> Fps,
                         faces |-> fp] >>
    /\ pc = "dual_in"
    /\ video = NoVideo
    /\ USE_SMOOTH_INTERPOLATION = TRUE
    /\ ENABLE_ZERO_FACE_PANNING = TRUE
    /\ NothingDone

\* crop_params = self._process_dual_face_crop(seg['faces'], width, height)
ProcessDual ==
    /\ pc = "dual_in"
    /\ crop' = ProcessDualFaceCrop(segments[1].faces, Width, Height)
    /\ pc' = "dual_out"
    /\ UNCHANGED <<shared, video, USE_SMOOTH_INTERPOLATION, ENABLE_ZERO_FACE_PANNING, path, req,
                   segments, merged_segments, seg_i, segment_files, log, temp_dirs,
                   temp_made, result, remerged>>

\* the caller reads the mode of the result
ReadDualResult ==
    /\ pc = "dual_out"
    /\ pc' = IF crop.mode = "dual" THEN "dual_face" ELSE "single_face"
    /\ UNCHANGED <<shared, video, USE_SMOOTH_INTERPOLATION, ENABLE_ZERO_FACE_PANNING, path, req,
                   segments, merged_segments, seg_i, segment_files, crop, log, temp_dirs,
                   temp_made, result, remerged>>

NextDual == ProcessDual \/ ReadDualResult

SpecDual == InitDual /\ [][NextDual]_vars

-----------------------------------------------------------------------------
(* The static conversions over sources of several sizes: the crop chosen   *)
(* by detect_speaker_position, _get_default_crop_position and              *)
(* _process_dual_face_crop, and the transcode that receives it             *)

\* source sizes: landscape, portrait 9:16, narrow landscape, and a portrait
\* narrower than 9:16
SourceSizes ==
    { <<Width, Height>>, <<Height, Width>>, <<Width \div 2, Height>>,
      <<Height \div 2, Width>> }

\* side lengths of the detected boxes of a source
BoxSizes(width, height) ==
    { height \div 10, Min(width, height) \div 4, Min(width, height) \div 2 }

\* detected boxes of side s: at the left edge, centred or at the right
\* edge, at the top or at the bottom of the frame
BoxesOfSize(width, height, sz) ==
    { [x |-> x, y |-> y, w |-> sz, h |-> sz + sz \div 8, conf |-> 90] :
        x \in { 0, (width - Min(sz, width)) \div 2, width - Min(sz, width) },
        y \in { 0, height - (sz + sz \div 8) } }

BoxesOf(width, height) ==
    UNION { BoxesOfSize(width, height, sz) : sz \in BoxSizes(width, height) }

\* total_frames of the sources below: one block of frames per sample of
\* detect_speaker_position
CropTotalFrames == SAMPLE_FRAMES * FACE_CHECK_INTERVAL_FRAMES

\* A source whose first n_pair sampled frames show the boxes pair and whose
\* other readable frames show rest; the frames after the first n_read
\* cannot be decoded.
CropSource(size, pair, n_pair, rest, n_read) ==
    [opened |-> TRUE, total_frames |-> CropTotalFrames,
     width |-> size[1], height |-> size[2],
     frames |-> [k \in 1..n_read |-> IF k <= n_pair THEN pair ELSE rest]]

InitCrop ==
    /\ \E size \in SourceSizes :
          \E b1 \in BoxesOf(size[1], size[2]), b2 \in BoxesOf(size[1], size[2]) :
            \E n_read \in {SAMPLE_FRAMES - 2, SAMPLE_FRAMES} :
              \E n_pair \in {0, SAMPLE_FRAMES \div 2, SAMPLE_FRAMES - 2,
                              SAMPLE_FRAMES - 1, SAMPLE_FRAMES} :
                \E rest \in { <<>>, <<b1>> } :
                  /\ n_pair <= n_read
                  /\ b1 # b2
                  /\ video = CropSource(size, <<b1, b2>>, n_pair, rest, n_read)
    /\ pc = "crop_in"
    /\ segments = <<>>
    /\ USE_SMOOTH_INTERPOLATION = TRUE
    /\ ENABLE_ZERO_FACE_PANNING = TRUE
    /\ NothingDone

\* convert_to_reels(auto_detect=True, dynamic_mode=False): the crop comes
\* from detect_speaker_position
StaticDetect ==
    /\ pc = "crop_in"
    /\ req' = [auto_detect |-> TRUE, dynamic_mode |-> FALSE,
               output_format |-> FORMAT_VERTICAL_9_16,
               ai_content |-> FALSE, caption |-> FALSE]
    /\ crop' = DetectSpeakerPosition(video, video.width, video.height)
    /\ path' = "static"
    /\ pc' = IF crop'.mode = "dual" THEN "dual_face" ELSE "single_face"
    /\ UNCHANGED <<config, segments, merged_segments, seg_i, segment_files, log,
                   temp_dirs, temp_made, result>>

\* convert_to_reels(auto_detect=False): the default crop.  convert_to_reels
\* asks for "center"; "left" and "right" are the other fixed positions.
StaticDefault(position) ==
    /\ pc = "crop_in"
    /\ req' = [auto_detect |-> FALSE, dynamic_mode |-> FALSE,
               output_format |-> FORMAT_VERTICAL_9_16,
               ai_content |-> FALSE, caption |-> FALSE]
    /\ crop' = GetDefaultCropPosition(video.width, video.height, position)
    /\ path' = "default"
    /\ pc' = "single_face"
    /\ UNCHANGED <<config, segments, merged_segments, seg_i, segment_files, log,
                   temp_dirs, temp_made, result>>

\* _process_dual_face_crop called on the observations of a segment judged
\* dual (the one-segment plan of _convert_to_reels_dynamic)
SegmentDualCrop ==
    /\ pc = "crop_in"
    /\ LET faces == SpeakerFacePositions(video, 0, video.width, video.height)
           p == DualOrKeyError(ProcessDualFaceCrop(faces, video.width, video.height))
       IN /\ faces # <<>>
          /\ crop' = p
          /\ path' = "dual_crop"
          /\ IF IsException(p)
             THEN Return("failure")
             ELSE pc' = "dual_face" /\ UNCHANGED result
    /\ UNCHANGED <<config, req, segments, merged_segments, seg_i, segment_files, log,
                   temp_dirs, temp_made>>

NextCrop ==
    \/ StaticDetect
    \/ \E position \in {"left", "center", "right"} : StaticDefault(position)
    \/ SegmentDualCrop
    \/ \E ok \in BOOLEAN : ConvertSingleFaceReels(ok)
    \/ \E ok \in BOOLEAN : ConvertDualFaceReels(ok)

SpecCrop == InitCrop /\ [][NextCrop]_vars

-----------------------------------------------------------------------------
(* Concurrent requests: what convert_to_reels touches outside itself -     *)
(* the cached detection-model file, its temp directory, its output file    *)

NumRequests == 2

Sources == {"a", "b"}

\* output_path: the caller's own path, or by default
\* video_path.parent / f"{video_path.stem}_reels.mp4"
OutputPath(i, source, own) ==
    IF own THEN <<"own", i>> ELSE <<"reels", source>>

OutputPaths ==
    { OutputPath(i, source, own) :
        i \in 1..NumRequests, source \in Sources, own \in BOOLEAN }

NoFile == [writers |-> {}, owner |-> 0, replaced |-> FALSE]

InitConcurrent ==
    /\ model_file \in { [exists |-> e, writers |-> {}] : e \in BOOLEAN }
    /\ outputs = [p \in OutputPaths |-> NoFile]
    /\ workers = [i \in 1..NumRequests |->
                    [pc |-> "idle", out |-> <<>>, temp |-> 0, model_read |-> "none"]]
    /\ pc = "concurrent"
    /\ video = NoVideo
    /\ segments = <<>>
    /\ USE_SMOOTH_INTERPOLATION = TRUE
    /\ ENABLE_ZERO_FACE_PANNING = TRUE
    /\ RequestIdle

\* what no step of a concurrent request changes
one_request == <<video, USE_SMOOTH_INTERPOLATION, ENABLE_ZERO_FACE_PANNING, pc, path, req,
                 segments, merged_segments, seg_i, segment_files, crop, log, result,
                 remerged>>

\* convert_to_reels(video_path, output_path) is called
Submit(i, source, own) ==
    /\ workers[i].pc = "idle"
    /\ workers' = [workers EXCEPT ![i].pc = "model_check",
                                  ![i].out = OutputPath(i, source, own)]
    /\ UNCHANGED <<one_request, model_file, outputs, temp_dirs, temp_made>>

\* _get_face_detection_model: if not model_path.exists()
CheckModel(i) ==
    /\ workers[i].pc = "model_check"
    /\ workers' = [workers EXCEPT ![i].pc = IF model_file.exists THEN "read_model"
                                            ELSE "download"]
    /\ UNCHANGED <<one_request, model_file, outputs, temp_dirs, temp_made>>

\* urllib.request.urlretrieve(url, model_path) opens model_path for writing
BeginDownload(i) ==
    /\ workers[i].pc = "download"
    /\ model_file' = [exists |-> TRUE, writers |-> model_file.writers \cup {i}]
    /\ workers' = [workers EXCEPT ![i].pc = "downloading"]
    /\ UNCHANGED <<one_request, outputs, temp_dirs, temp_made>>

\* urlretrieve has written the last block and returns
EndDownload(i) ==
    /\ workers[i].pc = "downloading"
    /\ model_file' = [model_file EXCEPT !.writers = @ \ {i}]
    /\ workers' = [workers EXCEPT ![i].pc = "read_model"]
    /\ UNCHANGED <<one_request, outputs, temp_dirs, temp_made>>

\* with open(model_path, 'rb') as f: return f.read()
ReadModel(i) ==
    /\ workers[i].pc = "read_model"
    /\ workers' = [workers EXCEPT
                     ![i].pc = "mkdtemp",
                     ![i].model_read = IF model_file.writers # {} THEN "partial"
                                       ELSE "complete"]
    /\ UNCHANGED <<one_request, model_file, outputs, temp_dirs, temp_made>>

\* temp_dir = Path(tempfile.mkdtemp()): a name no one else has
MakeTempDir(i) ==
    /\ workers[i].pc = "mkdtemp"
    /\ temp_made' = temp_made + 1
    /\ temp_dirs' = temp_dirs \cup {temp_made + 1}
    /\ workers' = [workers EXCEPT ![i].pc = "transcode", ![i].temp = temp_made + 1]
    /\ UNCHANGED <<one_request, model_file, outputs>>

\* the last invocation starts writing output_path (ffmpeg -y)
BeginOutput(i) ==
    /\ workers[i].pc = "transcode"
    /\ outputs' = [outputs EXCEPT ![workers[i].out] =
                      [writers |-> @.writers \cup {i}, owner |-> i,
                       replaced |-> @.replaced \/ @.owner \notin {0, i}]]
    /\ workers' = [workers EXCEPT ![i].pc = "writing"]
    /\ UNCHANGED <<one_request, model_file, temp_dirs, temp_made>>

\* the invocation ends; finally: shutil.rmtree(temp_dir); return
FinishRequest(i) ==
    /\ workers[i].pc = "writing"
    /\ outputs' = [outputs EXCEPT ![workers[i].out].writers = @ \ {i}]
    /\ temp_dirs' = temp_dirs \ {workers[i].temp}
    /\ workers' = [workers EXCEPT ![i].pc = "done"]
    /\ UNCHANGED <<one_request, model_file, temp_made>>

NextConcurrent ==
    \E i \in 1..NumRequests :
        \/ \E source \in Sources, own \in BOOLEAN : Submit(i, source, own)
        \/ CheckModel(i)
        \/ BeginDownload(i)
        \/ EndDownload(i)
        \/ ReadModel(i)
        \/ MakeTempDir(i)
        \/ BeginOutput(i)
        \/ FinishRequest(i)

SpecConcurrent == InitConcurrent /\ [][NextConcurrent]_vars

-----------------------------------------------------------------------------
(* Trajectory smoother: _bezier_interpolate(points, num_samples, smoothness) *)
(* Times are frame numbers, values are pixels; a trajectory is a list of    *)
(* (t, x) numerators over one common denominator den.                       *)

MaxOutSamples == 5

SMOOTHING_STRENGTH_PCT == 50

\* the smoothness at which the Gaussian filter is still skipped, in percent
NO_FILTER_PCT == 30

\* gaussian_filter1d for sigma = smoothness * 2 = 1.0: radius int(4 * sigma + 0.5),
\* weight exp(-d^2 / (2 * sigma^2)) at distance d = 0..radius, per 100000
GaussianWeights == <<100000, 60653, 13534, 1111, 34>>

GaussianRadius == Len(GaussianWeights) - 1

GaussianWeightSum ==
    GaussianWeights[1] + 2 * (GaussianWeights[2] + GaussianWeights[3]
                                + GaussianWeights[4] + GaussianWeights[5])

\* mode='reflect': (d c b a | a b c d | d c b a), indices from 0
Reflect(j, n) ==
    LET m == j % (2 * n) IN IF m < n THEN m ELSE 2 * n - 1 - m

RECURSIVE WeightedSum(_, _, _)
\* sum over d = -radius..d_max of weight(|d|) * values[reflect(k + d)]
WeightedSum(values, k, d_max) ==
    IF d_max < -GaussianRadius THEN 0
    ELSE LET dist == IF d_max < 0 THEN -d_max ELSE d_max
         IN GaussianWeights[dist + 1] * values[Reflect(k + d_max, Len(values)) + 1]
              + WeightedSum(values, k, d_max - 1)

\* np.linspace(a, b, n)[k], k from 0, as a numerator over Steps(n)
Steps(n) == IF n > 1 THEN n - 1 ELSE 1

Linspace(a, b, n, k) == a * Steps(n) + (b - a) * k

\* the natural cubic spline through two points is the straight line through them
BezierInterpolate(points, num_samples, smoothness) ==
    IF Len(points) < 2 THEN [den |-> 1, samples |-> points]
    ELSE LET t_min == points[1][1]
             t_max == points[Len(points)][1]
             interp_times == [k \in 1..num_samples |->
                                Linspace(t_min, t_max, num_samples, k - 1)]
             interp_values == [k \in 1..num_samples |->
                                Linspace(points[1][2], points[2][2], num_samples, k - 1)]
         IN IF smoothness > NO_FILTER_PCT
            THEN [den |-> Steps(num_samples) * GaussianWeightSum,
                  samples |-> [k \in 1..num_samples |->
                                <<interp_times[k] * GaussianWeightSum,
                                  WeightedSum(interp_values, k - 1, GaussianRadius)>>]]
            ELSE [den |-> Steps(num_samples),
                  samples |-> [k \in 1..num_samples |->
                                <<interp_times[k], interp_values[k]>>]]

\* keyframes: face centres sampled every FACE_CHECK_INTERVAL_FRAMES frames
KeyframeTimes == {0, FACE_CHECK_INTERVAL_FRAMES, 2 * FACE_CHECK_INTERVAL_FRAMES}

KeyframeValues == {Width \div 2, Width \div 4, Width \div 2 + 50}

InitBezier ==
    /\ \E n \in 0..2 :
         \E points \in [1..n -> KeyframeTimes \X KeyframeValues],
            num_samples \in 0..MaxOutSamples,
            smoothness \in {NO_FILTER_PCT, SMOOTHING_STRENGTH_PCT} :
             /\ \A i \in 1..(n - 1) : points[i][1] < points[i + 1][1]
             /\ req = [points |-> points, num_samples |-> num_samples,
                       smoothness |-> smoothness]
    /\ pc = "bezier_in"
    /\ video = NoVideo
    /\ segments = <<>>
    /\ USE_SMOOTH_INTERPOLATION = TRUE
    /\ ENABLE_ZERO_FACE_PANNING = TRUE
    /\ path = "none"
    /\ merged_segments = <<>>
    /\ seg_i = 0
    /\ segment_files = <<>>
    /\ crop = NoCrop
    /\ log = <<>>
    /\ temp_dirs = {}
    /\ temp_made = 0
    /\ result = "none"
    /\ remerged = <<>>
    /\ NothingShared

\* smooth_positions = self._bezier_interpolate(positions, num_samples, ...)
Interpolate ==
    /\ pc = "bezier_in"
    /\ result' = BezierInterpolate(req.points, req.num_samples, req.smoothness)
    /\ pc' = "bezier_done"
    /\ UNCHANGED <<config, path, req, segments, merged_segments, seg_i, segment_files,
                   crop, log, temp_dirs, temp_made>>

NextBezier == Interpolate

SpecBezier == InitBezier /\ [][NextBezier]_vars

-----------------------------------------------------------------------------
(* Zero-face panning: _generate_panning_positions(duration, fps, width,     *)
(* crop_width). Time is the frame number; a position is num / den pixels.   *)

MaxPanSeconds == 8

PAN_LEFT_BOUNDARY_PCT == 15

PAN_RIGHT_BOUNDARY_PCT == 85

PAN_CYCLE_DURATION == 8

\* left_boundary_px = int(width * PAN_LEFT_BOUNDARY)
PanLeftBoundary(width) == (width * PAN_LEFT_BOUNDARY_PCT) \div 100

\* right_boundary_px = int(width * PAN_RIGHT_BOUNDARY) - crop_width, then
\* max(left_boundary_px, min(right_boundary_px, width - crop_width))
PanRightBoundaryWithoutCrop(width, crop_width) ==
    LET right == (width * PAN_RIGHT_BOUNDARY_PCT) \div 100
        fit == IF right < width - crop_width THEN right ELSE width - crop_width
    IN IF fit > PanLeftBoundary(width) THEN fit ELSE PanLeftBoundary(width)

PanRightBoundary(width, crop_width) ==
    LET right == (width * PAN_RIGHT_BOUNDARY_PCT) \div 100 - crop_width
        fit == IF right < width - crop_width THEN right ELSE width - crop_width
    IN IF fit > PanLeftBoundary(width) THEN fit ELSE PanLeftBoundary(width)

\* frames in one cycle, and in half a cycle (an angle of pi)
PanCycleFrames == PAN_CYCLE_DURATION * Fps

PanHalfCycle == PanCycleFrames \div 2

\* angle - pi / 2 for this frame, in frames of the cycle, reduced to one turn
PanAngle(frame) == (frame - PanHalfCycle \div 2) % PanCycleFrames

\* math.sin as the rational 16 a (pi - a) / (5 pi^2 - 4 a (pi - a)) on [0, pi],
\* mirrored on [pi, 2 pi]: exact at the multiples of pi / 2, within 0.002 between
SinArc(a) == IF a <= PanHalfCycle THEN a ELSE a - PanHalfCycle

SinNum(a) ==
    LET b == SinArc(a)
    IN IF a <= PanHalfCycle THEN 16 * b * (PanHalfCycle - b)
       ELSE -(16 * b * (PanHalfCycle - b))

SinDen(a) ==
    LET b == SinArc(a)
    IN 5 * PanHalfCycle * PanHalfCycle - 4 * b * (PanHalfCycle - b)

\* x_position = center_x + amplitude * sin(angle - pi / 2), clamped to the boundaries
PanPosition(frame, left, right) ==
    LET a == PanAngle(frame)
        den == 2 * SinDen(a)
        num == (left + right) * SinDen(a) + (right - left) * SinNum(a)
    IN [time |-> frame,
        num |-> IF num < left * den THEN left * den
                ELSE IF num > right * den THEN right * den ELSE num,
        den |-> den]

GeneratePanningPositions(num_frames, width, crop_width) ==
    [k \in 1..num_frames |->
        PanPosition(k - 1, PanLeftBoundary(width), PanRightBoundary(width, crop_width))]

\* crop_width = int(crop_height * 9 / 8) of the stacked layout
StackedCropWidth(height) == (height * 9) \div 8

InitPan ==
    /\ \E size \in SourceSizes, stacked \in BOOLEAN, half_seconds \in 0..(2 * MaxPanSeconds) :
         req = [width |-> size[1],
                crop_width |-> IF stacked THEN StackedCropWidth(size[2])
                               ELSE CropWidth(size[2]),
                num_frames |-> (half_seconds * Fps) \div 2]
    /\ pc = "pan_in"
    /\ video = NoVideo
    /\ segments = <<>>
    /\ USE_SMOOTH_INTERPOLATION = TRUE
    /\ ENABLE_ZERO_FACE_PANNING = TRUE
    /\ path = "none"
    /\ merged_segments = <<>>
    /\ seg_i = 0
    /\ segment_files = <<>>
    /\ crop = NoCrop
    /\ log = <<>>
    /\ temp_dirs = {}
    /\ temp_made = 0
    /\ result = "none"
    /\ remerged = <<>>
    /\ NothingShared

\* smooth_positions = self._generate_panning_positions(duration, fps, width, crop_width)
Pan ==
    /\ pc = "pan_in"
    /\ result' = GeneratePanningPositions(req.num_frames, req.width, req.crop_width)
    /\ pc' = "pan_done"
    /\ UNCHANGED <<config, path, req, segments, merged_segments, seg_i, segment_files,
                   crop, log, temp_dirs, temp_made>>

NextPan == Pan

SpecPan == InitPan /\ [][NextPan]_vars

-----------------------------------------------------------------------------
(* Crop expressions: the piecewise-linear x='...' expression of the crop    *)
(* filter, built from a dense trajectory by the single-pass path, by the    *)
(* stacked layout and by the two per-segment branches.  A trajectory is a   *)
(* list of positions with time tn / den (in frames) and x = xn / den.       *)

MaxExprFrames == 64

MaxTrackFrames == 20

MAX_KEYFRAMES == 30

\* smooth_positions = self._generate_panning_positions(...)
PanTrajectory(num_frames, width, crop_width) ==
    LET positions == GeneratePanningPositions(num_frames, width, crop_width)
    IN [k \in 1..num_frames |->
          [tn |-> positions[k].time * positions[k].den,
           xn |-> positions[k].num,
           den |-> positions[k].den]]

\* smooth_positions = self._bezier_interpolate(positions, num_samples, SMOOTHING_STRENGTH)
TrackTrajectory(points, num_samples) ==
    LET smooth == BezierInterpolate(points, num_samples, SMOOTHING_STRENGTH_PCT)
    IN [k \in 1..Len(smooth.samples) |->
          [tn |-> smooth.samples[k][1], xn |-> smooth.samples[k][2], den |-> smooth.den]]

\* crop_x = int(face_x - offset); crop_x = max(0, min(crop_x, width - crop_width))
\* offset is crop_width // 2 for a face centre and 0 for a panning position
CropX(p, offset, width, crop_width) ==
    Clamp(Trunc(p.xn - offset * p.den, p.den), width - crop_width)

\* frame_num = int(time * fps)
FrameOfTime(p) == Trunc(p.tn, p.den)

\* the three kinds of expr_parts entries
\*   if_const   if(lt(n,{frame}),{x}
\*   if_lerp    ,if(lt(n,{next_frame}),{x}+(n-{frame})*({next_x}-{x})/{next_frame-frame}
\*   const      ,{x}
Part(kind, frame, x, next_frame, next_x) ==
    [kind |-> kind, frame |-> frame, x |-> x, next_frame |-> next_frame, next_x |-> next_x]

\* expr_parts.append(")" * (n - 1)): no parenthesis for n - 1 <= 0
Expression(parts, n) ==
    [mode |-> "expr", parts |-> parts, closing |-> Max(0, n - 1)]

\* sampled_indices = range(0, len(smooth_positions), int(sample_interval)),
\* sample_interval = fps
IndicesByTime(len) == [i \in 1..((len + Fps - 1) \div Fps) |-> (i - 1) * Fps]

\* The builder of _convert_to_reels_smooth and _convert_to_stacked_format.
TimeSampledExpr(smooth_positions, offset, width, crop_width) ==
    LET sampled_indices == IndicesByTime(Len(smooth_positions))
        n_sampled == Len(sampled_indices)
        parts == [i \in 1..n_sampled |->
            LET p == smooth_positions[sampled_indices[i] + 1]
                frame_num == FrameOfTime(p)
                crop_x == CropX(p, offset, width, crop_width)
            IN IF i = 1 THEN Part("if_const", frame_num, crop_x, frame_num, crop_x)
               ELSE IF i < n_sampled
               THEN LET q == smooth_positions[sampled_indices[i + 1] + 1]
                    IN Part("if_lerp", frame_num, crop_x, FrameOfTime(q),
                            CropX(q, offset, width, crop_width))
               ELSE Part("const", frame_num, crop_x, frame_num, crop_x)]
    IN Expression(parts, Len(parts))

\* _convert_to_reels_smooth: always int(face_x - crop_width // 2)
SinglePassExpr(smooth_positions, width, crop_width) ==
    TimeSampledExpr(smooth_positions, crop_width \div 2, width, crop_width)

\* _convert_to_stacked_format: int(face_x) when panning
StackedExpr(smooth_positions, panning, width, crop_width) ==
    TimeSampledExpr(smooth_positions, IF panning THEN 0 ELSE crop_width \div 2,
                    width, crop_width)

\* sample_interval = max(1, len(smooth_positions) // max_keyframes)
SampleInterval(len) == Max(1, len \div MAX_KEYFRAMES)

\* sampled_positions = smooth_positions[::sample_interval][:max_keyframes],
\* as indices into smooth_positions
IndicesByCount(len) ==
    [i \in 1..Min(MAX_KEYFRAMES,
                  (len + SampleInterval(len) - 1) \div SampleInterval(len)) |->
        (i - 1) * SampleInterval(len)]

\* the (i, len(sampled_positions), segment_frame_count) up to 99 frames for
\* which the float product (i / n) * count falls just below the whole number
FloatShortfalls ==
    { <<15, 22, 22>>, <<13, 23, 23>>, <<15, 26, 26>>, <<22, 30, 75>>, <<21, 30, 90>> }

\* frame_num = int((i / len(sampled_positions)) * segment_frame_count)
FrameNum(i, n_sampled, segment_frame_count) ==
    (i * segment_frame_count) \div n_sampled
        - (IF <<i, n_sampled, segment_frame_count>> \in FloatShortfalls THEN 1 ELSE 0)

\* The builder of the two per-segment branches of _convert_to_reels_dynamic.
IndexSampledExpr(smooth_positions, segment_frame_count, offset, width, crop_width) ==
    LET sampled_indices == IndicesByCount(Len(smooth_positions))
        n_sampled == Len(sampled_indices)
        parts == [k \in 1..n_sampled |->
            LET i == k - 1
                frame_num == FrameNum(i, n_sampled, segment_frame_count)
                crop_x == CropX(smooth_positions[sampled_indices[k] + 1], offset,
                                width, crop_width)
            IN IF i = 0 THEN Part("if_const", frame_num, crop_x, frame_num, crop_x)
               ELSE IF i < n_sampled - 1
               THEN LET next_frame == FrameNum(i + 1, n_sampled, segment_frame_count)
                        next_crop_x == CropX(smooth_positions[sampled_indices[k + 1] + 1],
                                             offset, width, crop_width)
                    IN IF next_frame > frame_num
                       THEN Part("if_lerp", frame_num, crop_x, next_frame, next_crop_x)
                       ELSE Part("const", frame_num, crop_x, frame_num, crop_x)
               ELSE Part("const", frame_num, crop_x, frame_num, crop_x)]
    IN Expression(parts, n_sampled)

\* face centres of the keyframes of a tracked trajectory: near the left
\* edge, left of the centre, the centre
TrackValues == {60, Width \div 2 - 120, Width \div 2}

\* two keyframes (time in frames, face centre x) for a clip of num_frames
\* frames: the first sample and a later one
TrackKeyframes(num_frames) ==
    { << <<0, x0>>, <<t1, x1>> >> :
        x0 \in TrackValues, x1 \in TrackValues,
        t1 \in {FACE_CHECK_INTERVAL_FRAMES,
                Max(FACE_CHECK_INTERVAL_FRAMES, num_frames - 1)} }

ExprInputs ==
    { [builder |-> b, panning |-> TRUE, num_frames |-> n, keyframes |-> <<>>] :
        b \in {"single_pass", "stacked", "segment"}, n \in 0..MaxExprFrames }
    \cup
    UNION { { [builder |-> b, panning |-> FALSE, num_frames |-> n, keyframes |-> kf] :
                b \in {"single_pass", "stacked", "segment"}, kf \in TrackKeyframes(n) } :
            \* the two sampled frames lie inside the clip
            n \in (FACE_CHECK_INTERVAL_FRAMES + 1)..MaxTrackFrames }

InitExpr ==
    /\ req \in ExprInputs
    \* two keyframes at the centre column are the no-face fallback: they pan
    /\ ~req.panning => ~IsZeroFace(req.keyframes, Width)
    /\ pc = "expr_in"
    /\ video = NoVideo
    /\ segments = <<>>
    /\ USE_SMOOTH_INTERPOLATION = TRUE
    /\ ENABLE_ZERO_FACE_PANNING = TRUE
    /\ path = "none"
    /\ merged_segments = <<>>
    /\ seg_i = 0
    /\ segment_files = <<>>
    /\ crop = NoCrop
    /\ log = <<>>
    /\ temp_dirs = {}
    /\ temp_made = 0
    /\ result = "none"
    /\ remerged = <<>>
    /\ NothingShared

\* the trajectory and the expression of one builder; result is smooth_positions
BuildExpr(builder, crop_width, smooth_positions, expr) ==
    /\ pc = "expr_in"
    /\ req.builder = builder
    /\ result' = smooth_positions
    /\ crop' = [expr EXCEPT !.mode = builder] @@ [width |-> Width, crop_width |-> crop_width]
    /\ pc' = "expr_done"
    /\ UNCHANGED <<config, path, req, segments, merged_segments, seg_i, segment_files,
                   log, temp_dirs, temp_made>>

\* what the path hands to the builder: panning positions or the smoothed track
Trajectory(crop_width) ==
    IF req.panning THEN PanTrajectory(req.num_frames, Width, crop_width)
    ELSE TrackTrajectory(req.keyframes, req.num_frames)

\* _convert_to_reels_smooth, from the trajectory to vf_filter
BuildSinglePassExpr ==
    BuildExpr("single_pass", CropWidth(Height), Trajectory(CropWidth(Height)),
              SinglePassExpr(Trajectory(CropWidth(Height)), Width, CropWidth(Height)))

\* _convert_to_stacked_format, from the trajectory to vf_filter
BuildStackedExpr ==
    BuildExpr("stacked", StackedCropWidth(Height), Trajectory(StackedCropWidth(Height)),
              StackedExpr(Trajectory(StackedCropWidth(Height)), req.panning, Width,
                          StackedCropWidth(Height)))

\* the single-face and the zero-face branch of the per-segment loop
BuildSegmentExpr ==
    BuildExpr("segment", CropWidth(Height), Trajectory(CropWidth(Height)),
              IndexSampledExpr(Trajectory(CropWidth(Height)), req.num_frames,
                               IF req.panning THEN 0 ELSE CropWidth(Height) \div 2,
                               Width, CropWidth(Height)))

NextExpr == BuildSinglePassExpr \/ BuildStackedExpr \/ BuildSegmentExpr

SpecExpr == InitExpr /\ [][NextExpr]_vars

-----------------------------------------------------------------------------
(* Properties *)

\* ordered by start_time, every segment non-empty, each segment ending
\* where the next begins
GapFree(segs) ==
    /\ \A k \in 1..Len(segs) : segs[k].start_time < segs[k].end_time
    /\ \A k \in 1..Len(segs) - 1 :
          /\ segs[k].start_time < segs[k + 1].start_time
          /\ segs[k].end_time = segs[k + 1].start_time

\* a gap-free list from time 0 to the source's duration
PartitionsSource(segs, total_frames) ==
    /\ segs # <<>>
    /\ GapFree(segs)
    /\ segs[1].start_time = 0
    /\ segs[Len(segs)].end_time = total_frames

\* the request ran detect_face_segments on a source that opened
Detected == path \in {"smooth", "dynamic"}

C2_SuccessOnlyIfAllSucceeded ==
    result = "success" => \A k \in 1..Len(log) : log[k].ok

C2_Witness ==
    /\ result = "success"
    /\ path = "dynamic"
    /\ Len(log) >= 7
    /\ log[Len(log)].op = "remux"

\* C3 as stated: when convert_to_reels has returned, on success or failure,
\* every temporary directory the request created has been removed.
C3_TempDirsRemoved == pc = "done" => temp_dirs = {}

\* no two invocations of the log are the same step of the same segment
NoneTwice ==
    \A j, k \in 1..Len(log) :
        (log[j].op = log[k].op /\ log[j].seg = log[k].seg) => j = k

\* C4: in the per-segment pipeline nothing is invoked after the first
\* failing transcode invocation, and no invocation is issued twice.
C4_StopAtFirstFailure ==
    path = "dynamic" =>
        /\ \A k \in 1..Len(log) - 1 : log[k].ok
        /\ NoneTwice
        /\ (Len(log) > 0 /\ ~log[Len(log)].ok) => result = "failure"

C4_Witness ==
    /\ path = "dynamic"
    /\ result = "failure"
    /\ Len(log) >= 4
    /\ ~log[Len(log)].ok
    /\ log[Len(log)].op = "extract"

\* the k-th invocation of the per-segment pipeline over n segments
PipelineStep(n, k) ==
    IF k = 1 THEN [op |-> "audio", seg |-> 0, streams |-> "a"]
    ELSE IF k <= 2 * n + 1
    THEN [op |-> IF k % 2 = 0 THEN "extract" ELSE "render", seg |-> k \div 2,
          streams |-> "v"]
    ELSE IF k = 2 * n + 2 THEN [op |-> "concat", seg |-> 0, streams |-> "v"]
    ELSE [op |-> "remux", seg |-> 0, streams |-> "av"]

\* the log is a prefix of: audio extraction, then extract and render of each
\* segment in order (video only), then one concat over the sub-clips in
\* order, then one remux, the only step writing the output path
PipelineOrder(n) ==
    /\ Len(log) <= 2 * n + 3
    /\ \A k \in 1..Len(log) :
          /\ log[k].op = PipelineStep(n, k).op
          /\ log[k].seg = PipelineStep(n, k).seg
          /\ log[k].streams = PipelineStep(n, k).streams
          /\ log[k].target = "output" <=> log[k].op = "remux"
          /\ log[k].op = "concat" => log[k].inputs = [i \in 1..n |-> i]
    /\ result = "success" => Len(log) = 2 * n + 3

\* C5 as stated: whenever convert_to_reels takes the per-segment pipeline it
\* extracts the audio once, then extracts and renders each segment in
\* start_time order without audio, then concatenates the sub-clips in order,
\* then remuxes video and audio, the only step that writes the output path.
C5_PipelineOrderAlways ==
    path = "dynamic" =>
        /\ GapFree(merged_segments)
        /\ PipelineOrder(Len(merged_segments))

\* C5: the order above holds when the refined plan has two or more segments;
\* a plan of one segment, or an empty segment list, is rendered by a single
\* transcode that writes the output path, with no audio extraction,
\* concatenation or remux.
C5_PipelineOrderForSeveralSegments ==
    path = "dynamic" =>
        /\ GapFree(merged_segments)
        /\ IF Len(merged_segments) >= 2
           THEN PipelineOrder(Len(merged_segments))
           ELSE /\ Len(log) <= 1
                /\ \A k \in 1..Len(log) :
                      /\ log[k].op \in {"single_face", "dual_face"}
                      /\ log[k].target = "output"
                      /\ log[k].streams = "av"

C5_Witness ==
    /\ path = "dynamic"
    /\ result = "success"
    /\ Len(merged_segments) = 2
    /\ Len(log) = 7
    /\ log[6].inputs = <<1, 2>>

\* the request asks for the vertical format with auto-detect and dynamic mode
AdaptiveRequest ==
    /\ req.output_format = FORMAT_VERTICAL_9_16
    /\ req.auto_detect
    /\ req.dynamic_mode

\* C6: with auto-detect, dynamic mode and the vertical format, the request
\* takes the single-pass path exactly when no detected segment has
\* face_count 2 and smooth interpolation is enabled, and the per-segment
\* pipeline otherwise (a source that cannot be opened takes neither).
C6_Routing ==
    (AdaptiveRequest /\ result # "raised") =>
        path = IF USE_SMOOTH_INTERPOLATION
                  /\ \A k \in 1..Len(segments) : segments[k].face_count # 2
               THEN "smooth"
               ELSE "dynamic"

C6_Witness ==
    /\ AdaptiveRequest
    /\ USE_SMOOTH_INTERPOLATION
    /\ path = "dynamic"
    /\ Len(segments) >= 2
    /\ result = "success"

\* total time covered by a list of segments
RECURSIVE Covered(_)
Covered(segs) ==
    IF segs = <<>> THEN 0
    ELSE Head(segs).end_time - Head(segs).start_time + Covered(Tail(segs))

\* C7: _merge_segments applied to an ordered gap-free list returns an ordered
\* gap-free list with the same first start_time and last end_time, so the
\* covered duration is unchanged.
C7_MergeKeepsPartition ==
    pc = "merged" =>
        /\ GapFree(segments)
        /\ GapFree(merged_segments)
        /\ (segments = <<>>) <=> (merged_segments = <<>>)
        /\ segments # <<>> =>
              /\ merged_segments[1].start_time = segments[1].start_time
              /\ merged_segments[Len(merged_segments)].end_time
                    = segments[Len(segments)].end_time
        /\ Covered(merged_segments) = Covered(segments)

C7_Witness ==
    /\ pc = "merged"
    /\ Len(segments) = 3
    /\ segments[2].end_time - segments[2].start_time < Fps
    /\ segments[1].face_count # segments[2].face_count
    /\ Len(merged_segments) = 2

\* C8: _merge_segments applied to its own output returns that output
\* unchanged: boundaries, face counts and observations.
C8_MergeIdempotent ==
    pc = "merged_again" => remerged = merged_segments

C8_Witness ==
    /\ pc = "merged_again"
    /\ Len(segments) = 3
    /\ Len(merged_segments) = 2
    /\ merged_segments # segments
    /\ remerged = merged_segments

\* the frames of a list that hold exactly two faces
TwoFaceFrames(fp) == {k \in 1..Len(fp) : Len(fp[k]) = 2}

\* those of them whose smaller width is at least half the larger
SimilarFrames(fp) ==
    {k \in TwoFaceFrames(fp) :
        2 * Min(fp[k][1].width, fp[k][2].width)
            >= Max(fp[k][1].width, fp[k][2].width)}

\* C9: _process_dual_face_crop does not return a dual result when fewer than
\* half of the two-face frames it is given have a size ratio of at least
\* 0.5; it returns the default single crop.
C9_NoDualBelowHalf ==
    pc = "dual_out" =>
        LET fp == segments[1].faces
        IN 2 * Cardinality(SimilarFrames(fp)) < Cardinality(TwoFaceFrames(fp)) =>
              /\ crop.mode = "single"
              /\ crop = GetDefaultCropPosition(Width, Height, "left")

C9_Witness ==
    /\ pc = "dual_out"
    /\ Len(segments[1].faces) = 3
    /\ Cardinality(TwoFaceFrames(segments[1].faces)) = 3
    /\ SimilarFrames(segments[1].faces) = {}
    /\ crop.mode = "single"

\* in every sampled frame exactly two boxes pass the filter and the smaller
\* is narrower than half the larger
AllFramesMismatchedPairs ==
    /\ video.opened
    /\ Len(video.frames) >= 1
    /\ video.total_frames > 0
    /\ \A k \in 1..Len(video.frames) :
          LET f == FilterFaces(video.frames[k], Width, Height)
          IN Len(f) = 2 /\ 2 * Min(f[1].width, f[2].width) < Max(f[1].width, f[2].width)

\* C10: if in every sampled frame exactly two boxes pass the filter with a
\* size ratio below 0.5, every detected segment has face_count 1 and
\* convert_to_reels renders no dual-face geometry, on the dynamic path or the
\* static one.
C10_MismatchedPairsNeverDual ==
    AllFramesMismatchedPairs =>
        /\ \A k \in 1..Len(segments) : segments[k].face_count = 1
        /\ \A k \in 1..Len(merged_segments) : merged_segments[k].face_count = 1
        /\ crop.mode # "dual"
        /\ pc # "dual_face"
        /\ \A k \in 1..Len(log) : log[k].op # "dual_face" /\ log[k].mode # "dual"

C10_Witness ==
    /\ AllFramesMismatchedPairs
    /\ Len(video.frames) = 3
    /\ path = "dynamic"
    /\ segments # <<>>
    /\ result = "success"

\* a crop window that lies inside a source of the given size
InsideSource(box, width, height) ==
    /\ 0 <= box.x
    /\ 0 <= box.y
    /\ box.x + box.width <= width
    /\ box.y + box.height <= height

\* C11: both boxes that _process_dual_face_crop returns in dual mode lie
\* inside the source frame, for every source size and accepted face boxes.
C11_DualBoxesInsideSource ==
    crop.mode = "dual" =>
        /\ InsideSource(crop.left_face, video.width, video.height)
        /\ InsideSource(crop.right_face, video.width, video.height)

\* dual boxes cut down to the source height, one of them clamped at the
\* right edge and at the bottom
C11_Witness ==
    /\ path = "dual_crop"
    /\ crop.mode = "dual"
    /\ crop.left_face.height = video.height
    /\ crop.left_face.x = 0
    /\ crop.right_face.x = video.width - crop.right_face.width
    /\ crop.right_face.x > 0

C13_SingleCropInsideSource ==
    crop.mode = "single" =>
        /\ 0 <= crop.x
        /\ crop.x + crop.width <= video.width

\* the source is narrower than the 9:16 crop of its height
SourceTooSmall == video.width < CropWidth(video.height)

\* C14 as stated: for a source smaller than the minimum viable crop the
\* request fails and no crop filter graph reaches the transcode engine.
C14_TooSmallFailsClosed ==
    SourceTooSmall => log = <<>> /\ result # "success"

\* sample positions of detect_speaker_position that show exactly two
\* accepted faces whose widths are within a factor of two
SimilarPairSamples ==
    { i \in 0..(SAMPLE_FRAMES - 1) :
        LET frame_idx == (video.total_frames * i) \div SAMPLE_FRAMES
            f == IF Readable(video, frame_idx)
                 THEN FilterFaces(Detections(video, frame_idx), video.width, video.height)
                 ELSE <<>>
        IN /\ Len(f) = 2
           /\ 2 * Min(f[1].width, f[2].width) >= Max(f[1].width, f[2].width) }

\* C19: when at least 90% of the SAMPLE_FRAMES sample positions of
\* detect_speaker_position show exactly two accepted faces with size ratio
\* >= 0.5, it returns mode dual with both boxes scaled to 1080x960 and an
\* output of 1080x1920; the size-mismatch guard does not demote it.
C19_ConsistentPairGivesDual ==
    (path = "static" /\ 10 * Cardinality(SimilarPairSamples) >= 9 * SAMPLE_FRAMES) =>
        /\ crop.mode = "dual"
        /\ crop.scale_width = 1080 /\ crop.scale_height = 960
        /\ crop.output_width = 1080 /\ crop.output_height = 1920
        /\ pc \in {"dual_face", "done"}
        /\ \A k \in 1..Len(log) : log[k].op = "dual_face"

\* nine of the ten samples show the pair, the tenth a single face
C19_Witness ==
    /\ path = "static"
    /\ Cardinality(SimilarPairSamples) = SAMPLE_FRAMES - 1
    /\ Len(video.frames) = SAMPLE_FRAMES
    /\ Len(FilterFaces(video.frames[SAMPLE_FRAMES], video.width, video.height)) = 1
    /\ crop.mode = "dual"
    /\ result = "success"

\* no sampled frame of the source yielded an accepted face
NoFaceSampled ==
    \A k \in 1..Len(video.frames) :
        FilterFaces(video.frames[k], Width, Height) = <<>>

\* C15 as stated: the single-pass path hands off to panning only if no
\* sampled frame yielded an accepted face; a timeline built from real
\* detections is never taken for the no-detection fallback.
C15_PanningOnlyWithoutFaces ==
    (path = "smooth" /\ crop.mode = "pan") => NoFaceSampled

\* C18 as stated: when the source cannot be opened, convert_to_reels ends
\* in failure before any transcode invocation, for every combination of
\* auto_detect, dynamic_mode and output layout.
C18_UnreadableFailsBeforeTranscode ==
    ~video.opened =>
        /\ log = <<>>
        /\ pc = "done" => result \in {"failure", "raised"}

\* C17 as stated: concurrent requests share no mutable state: no request
\* reads the cached model file while another is writing it, no two requests
\* write the model file or one output file at once, no request replaces
\* another's output file, and the temp directories are distinct.
C17_NoSharedMutableState ==
    /\ \A i \in DOMAIN workers : workers[i].model_read # "partial"
    /\ Cardinality(model_file.writers) <= 1
    /\ \A p \in DOMAIN outputs :
          Cardinality(outputs[p].writers) <= 1 /\ ~outputs[p].replaced
    /\ \A i, j \in DOMAIN workers :
          (i # j /\ workers[i].temp # 0) => workers[i].temp # workers[j].temp

\* C20 as stated: for at most 2 keyframes _bezier_interpolate returns exactly
\* num_samples samples, all with the same x.
C20_FlatWithNumSamples ==
    pc = "bezier_done" =>
        /\ Len(result.samples) = req.num_samples
        /\ \A k \in DOMAIN result.samples : result.samples[k][2] = result.samples[1][2]

Duration(seg) == seg.end_time - seg.start_time

\* C26 as stated: after _merge_segments every segment except the first
\* lasts at least 1.0 s.
C26_AllButFirstAtLeastOneSecond ==
    pc = "merged" =>
        \A k \in 2..Len(merged_segments) : Duration(merged_segments[k]) >= Fps

\* C26 amended: after _merge_segments every segment except the first and
\* the last lasts at least 1.0 s; the last input segment is never folded.
C26_InnerSegmentsAtLeastOneSecond ==
    pc = "merged" =>
        \A k \in 2..(Len(merged_segments) - 1) : Duration(merged_segments[k]) >= Fps

\* a merged plan of three segments: the short first and the short last one
\* are kept, the inner one lasts a second
C26_Witness ==
    /\ pc = "merged"
    /\ Len(merged_segments) = 3
    /\ Duration(merged_segments[1]) < Fps
    /\ Duration(merged_segments[2]) >= Fps
    /\ Duration(merged_segments[3]) < Fps

\* the size-mismatch guard of _process_dual_face_crop demotes this segment
Demoted(seg) ==
    /\ seg.face_count = 2
    /\ Len(seg.faces) > 0
    /\ ProcessDualFaceCrop(seg.faces, Width, Height).mode = "single"

AllTranscodesSucceeded == \A k \in DOMAIN log : log[k].ok

\* C21 as stated: when the guard demotes a face_count == 2 segment of the
\* refined plan and every transcode step succeeds, the request ends in
\* success with that segment rendered by a single crop; also for a plan of
\* one segment.
C21_DemotedSegmentRendersSingle ==
    (/\ pc = "done"
     /\ AllTranscodesSucceeded
     /\ \E k \in DOMAIN merged_segments : Demoted(merged_segments[k]))
    => /\ result = "success"
       /\ \E j \in DOMAIN log :
             log[j].op \in {"render", "single_face"} /\ log[j].mode = "single"

\* the segment of the refined plan whose crop has just been determined:
\* the loop's segment, or the only segment of a one-segment plan
CropChosenFor(seg) ==
    \/ pc = "render" /\ seg = merged_segments[seg_i]
    \/ /\ pc \in {"single_face", "dual_face"}
       /\ Len(merged_segments) = 1
       /\ seg = merged_segments[1]

\* C22 as stated: with panning and smoothing enabled every zero-face segment
\* of the refined plan is rendered with the panning trajectory, also when
\* the plan has one segment only.
C22_ZeroFaceSegmentsPan ==
    (USE_SMOOTH_INTERPOLATION /\ ENABLE_ZERO_FACE_PANNING) =>
        \A k \in DOMAIN merged_segments :
            (merged_segments[k].face_count = 0 /\ CropChosenFor(merged_segments[k]))
                => crop.mode = "pan"

\* C23 as stated: every face_count == 1 segment of the refined plan that
\* holds an observation is rendered with a crop derived from the observed
\* face centres (the interpolated track or their median), also when the plan
\* has one segment only.
C23_SingleFaceSegmentsFollowFace ==
    \A k \in DOMAIN merged_segments :
        (/\ merged_segments[k].face_count = 1
         /\ Len(merged_segments[k].faces) > 0
         /\ CropChosenFor(merged_segments[k]))
            => crop.mode \in {"track", "median"}

\* C30 as stated: every segment's face_count, detected or refined, is 0, 1
\* or 2.
C30_FaceCountAtMostTwo ==
    /\ \A k \in DOMAIN segments : segments[k].face_count \in 0..2
    /\ \A k \in DOMAIN merged_segments : merged_segments[k].face_count \in 0..2

\* a single-face segment longer than 2.0 s went into the split
LongSingleFace ==
    /\ pc = "split_done"
    /\ segments[1].face_count = 1
    /\ Duration(segments[1]) > SplitMaxDuration * SplitUnits

\* the chunks have equal durations, follow one another and cover the segment
EqualChunksCover(chunks, seg) ==
    /\ chunks[1].start_time = seg.start_time
    /\ chunks[Len(chunks)].end_time = seg.end_time
    /\ \A k \in 1..(Len(chunks) - 1) : chunks[k].end_time = chunks[k + 1].start_time
    /\ \A k \in DOMAIN chunks : Len(chunks) * Duration(chunks[k]) = Duration(seg)

\* C27 as stated: a single-face segment of duration d > 2.0 s is split into
\* exactly ceil(d / 2.0) contiguous chunks of equal duration that cover it.
C27_SplitIntoCeilChunks ==
    LongSingleFace =>
        /\ Len(merged_segments) * SplitMaxDuration * SplitUnits >= Duration(segments[1])
        /\ (Len(merged_segments) - 1) * SplitMaxDuration * SplitUnits < Duration(segments[1])
        /\ EqualChunksCover(merged_segments, segments[1])

\* C27 amended: a single-face segment of duration d > 2.0 s is split into
\* exactly int(d / 2.0) + 1 contiguous chunks of equal duration that cover
\* it: ceil(d / 2.0) chunks, and one more when d is a multiple of 2.0 s.
C27_SplitIntoFloorPlusOneChunks ==
    LongSingleFace =>
        /\ (Len(merged_segments) - 1) * SplitMaxDuration * SplitUnits <= Duration(segments[1])
        /\ Len(merged_segments) * SplitMaxDuration * SplitUnits > Duration(segments[1])
        /\ EqualChunksCover(merged_segments, segments[1])

\* a segment of exactly 4.0 s split into three chunks
C27_Witness ==
    /\ LongSingleFace
    /\ Duration(segments[1]) = 2 * SplitMaxDuration * SplitUnits
    /\ Len(merged_segments) = 3

\* an expression has been built from a trajectory of at least one frame
ExprBuilt == pc = "expr_done" /\ Len(result) >= 1

\* the number of if( terms the parts open
IfsOpened(parts) ==
    Cardinality({ i \in DOMAIN parts : parts[i].kind \in {"if_const", "if_lerp"} })

\* C28 as stated: every crop-x expression built for a clip or segment of at
\* least one frame closes as many parentheses as it opens if( terms, also
\* when only one keyframe is sampled.
C28_ParenthesesBalanced ==
    ExprBuilt => crop.closing = IfsOpened(crop.parts)

\* if(c1, a1, if(c2, a2, ... , last)): every part but the last opens an if,
\* the last is a plain value, and all ifs are closed
WellFormed(expr) ==
    /\ Len(expr.parts) >= 2
    /\ \A i \in 1..(Len(expr.parts) - 1) : expr.parts[i].kind \in {"if_const", "if_lerp"}
    /\ expr.parts[Len(expr.parts)].kind = "const"
    /\ expr.closing = Len(expr.parts) - 1

\* lt(n, ...) of part i holds for frame n
Selects(part, n) ==
    CASE part.kind = "if_const" -> n < part.frame
      [] part.kind = "if_lerp" -> n < part.next_frame
      [] part.kind = "const" -> TRUE

RECURSIVE SelectedPart(_, _, _)
\* the first part from i on whose condition holds for frame n
SelectedPart(parts, i, n) ==
    IF Selects(parts[i], n) THEN i ELSE SelectedPart(parts, i + 1, n)

\* the value of the part at frame n lies in [0, hi]
ValueInRange(part, n, hi) ==
    IF part.kind = "if_lerp"
    THEN LET d == part.next_frame - part.frame
             v == part.x * d + (n - part.frame) * (part.next_x - part.x)
         IN d > 0 /\ v >= 0 /\ v <= hi * d
    ELSE part.x >= 0 /\ part.x <= hi

\* C24 as stated: for every output frame n the crop x that the emitted
\* expression evaluates to lies in [0, source_width - crop_width], for the
\* single-pass builder and for the per-segment builders.
C24_CropXInsideSource ==
    (ExprBuilt /\ WellFormed(crop) /\ crop.mode \in {"single_pass", "segment"}) =>
        \A n \in 0..(Len(result) - 1) :
            ValueInRange(crop.parts[SelectedPart(crop.parts, 1, n)], n,
                         crop.width - crop.crop_width)

\* C25 as stated: on the single-pass path with no face detected the crop-x
\* keyframes of the expression are the generated panning positions clamped
\* to the source, as in the expression the stacked builder makes of the same
\* positions.
C25_SinglePassPansLikeStacked ==
    (ExprBuilt /\ crop.mode = "single_pass" /\ req.panning) =>
        /\ \A i \in DOMAIN crop.parts :
              crop.parts[i].x =
                  CropX(result[IndicesByTime(Len(result))[i] + 1], 0,
                        crop.width, crop.crop_width)
        /\ crop.parts = StackedExpr(result, TRUE, crop.width, crop.crop_width).parts

\* C29 as stated: in the per-segment builders the keyframe taken from
\* trajectory index k is placed at output frame k to within one sampling
\* interval, and the last keyframe lies within one sampling interval of the
\* trajectory's end.
C29_KeyframesTimeAligned ==
    (ExprBuilt /\ crop.mode = "segment") =>
        LET sampled_indices == IndicesByCount(Len(result))
            interval == SampleInterval(Len(result))
        IN /\ \A i \in DOMAIN crop.parts :
                 /\ crop.parts[i].frame - sampled_indices[i] <= interval
                 /\ sampled_indices[i] - crop.parts[i].frame <= interval
           /\ Len(result) - 1 - sampled_indices[Len(sampled_indices)] <= interval

====
